---------------------------- MODULE Spec2Model ----------------------------
(***************************************************************************)
(* A model of the Trainer orchestration core of pytorch-lightning:         *)
(*   - Trainer.fit / Trainer.test / run_pretrain_routine / model-contract  *)
(*     validation (pytorch_lightning/trainer/trainer.py),                  *)
(*   - the callback hook dispatchers (trainer/callback_hook.py),           *)
(*   - the rank-zero-only logger (loggers/tensorboard.py).                 *)
(*                                                                         *)
(* Processes.  Process 0 is the process that calls fit()/test().  When a   *)
(* cluster manager (SLURM) has started several tasks on the node, every    *)
(* task is a process that calls fit() itself (processes 0..ntasks-1).      *)
(* mp.spawn / xmp.spawn create worker processes 1..nprocs, each with a     *)
(* pickled copy of the trainer.                                            *)
(*                                                                         *)
(* None is written 0 for num_tpu_cores and "None" for object references.   *)
(*                                                                         *)
(* Specifications.  Spec: a script that calls fit()/test() on a trainer.   *)
(* SpecCallbacks: a script that constructs trainers and runs their hook    *)
(* dispatchers.  SpecLoggers: a process of a run calling its logger.       *)
(***************************************************************************)
EXTENDS Integers, Sequences, FiniteSets, TLC

\* ------------------------------------------------------------------ bounds
MaxGpus == 2
MaxSanity == 2
MaxValBatches == 2
MaxCalls == 2

\* The TPU core counts the constructor accepts besides None (trainer.py:289).
TpuCores == {1, 8}
MaxTpuCores == 8

Max(a, b) == IF a >= b THEN a ELSE b
Min(a, b) == IF a <= b THEN a ELSE b

Procs == 0..Max(MaxGpus, MaxTpuCores)

VARIABLES
    config,      \* the trainer's configuration, fixed by the constructor
    env,         \* the process environment: what SLURM exported
    model,       \* the LightningModule: which methods are base / own / patched
    trainer,     \* per process: the mutable trainer state (its own copy)
    role,        \* per process: "caller", "worker" or "absent"
    pc,          \* per process: position in fit / test / the training routine
    api,         \* per process: the top-level call in progress
    ncalls,      \* per process: top-level calls made so far
    strategy,    \* per process: the execution strategy branch fit entered
    calls,       \* per process: what the current call has invoked, in order
    outcome,     \* per process: how the current call ended
    fit_result,  \* per process: <<v>> once fit returned v, <<>> before
    error,       \* per process: the message of the exception raised
    arrived,     \* processes blocked in (or past) the pre-training barrier
    sanity_batches,  \* per process: batches the sanity check ran per loader
    fit_args     \* per process: the loaders passed to the fit that attaches them

fitVars == <<config, env, model, trainer, role, pc, api, ncalls, strategy,
             calls, outcome, fit_result, error, arrived, sanity_batches,
             fit_args>>

VARIABLES
    callback_lists,  \* the list objects holding callbacks, by reference
    trainers,        \* per constructed Trainer: constructor position and state
    hook_log         \* the hook dispatches made so far, in order

callbackVars == <<callback_lists, trainers, hook_log>>

VARIABLES
    logger,          \* the TensorBoardLogger of the process followed
    torch_version    \* the installed torch, "old" (< 1.3.0) or "new"

loggerVars == <<logger, torch_version>>

VARIABLES
    kwargs,      \* the arguments of the Trainer being constructed or fitted
    tenv,        \* the loaders' lengths, the model, and whether Ctrl+C comes
    loop,        \* the Trainer of the script: its fields and its position
    sigint,      \* the keyboard interrupt: "none", "pending" or "caught"
    epoch_log,   \* one record per training epoch that ran to its end
    checkpoint   \* the record hpc_save left at the save location, if any

trainVars == <<kwargs, tenv, loop, sigint, epoch_log, checkpoint>>

VARIABLES
    optim_conf,  \* what the model's configure_optimizers returns
    optim        \* the Trainer's optimizers, lr_schedulers, optimizer_frequencies

optimVars == <<optim_conf, optim>>

vars == <<fitVars, callbackVars, loggerVars, trainVars, optimVars>>

\* ------------------------------------------------------------ the model
\* A slot is "base" (LightningModule's own method), "own" (the user's class
\* overrides it) or a _PatchDataLoader put there by fit, written as the loader
\* it returns when called.
Models == [training_step : {"base", "own"},
           configure_optimizers : {"base", "own"},
           validation_step : {"base", "own"},
           test_step : {"base", "own"},
           validation_epoch_end : {"base", "own"},
           test_epoch_end : {"base", "own"},
           train_dataloader : {"base", "own"},
           val_dataloader : {"base", "own"},
           test_dataloader : {"base", "own"}]

\* A loader argument of fit: "None" or a loader object.
LoaderArgs == [train_dataloader : {"None", "train"},
               val_dataloaders : {"None", "val"},
               test_dataloaders : {"None", "test"}]

NoLoaders == [train_dataloader |-> "None", val_dataloaders |-> "None",
              test_dataloaders |-> "None"]

\* is_overriden: the attribute is not LightningModule's own; a
\* _PatchDataLoader (recognised by its patch_loader_code) counts as overridden.
is_overriden(name, m) == m[name] # "base"

\* _PatchDataLoader(dataloader): the callable that returns dataloader.
PatchDataLoader(dataloader) == dataloader

\* An attach that patches the test factory whatever was passed.
attach_dataloaders_unguarded(m, args) ==
    [m EXCEPT !.train_dataloader =
                  IF args.train_dataloader # "None"
                  THEN PatchDataLoader(args.train_dataloader) ELSE @,
              !.val_dataloader =
                  IF args.val_dataloaders # "None"
                  THEN PatchDataLoader(args.val_dataloaders) ELSE @,
              !.test_dataloader = PatchDataLoader(args.test_dataloaders)]

\* __attach_dataloaders: a passed loader replaces the model's factory; a None
\* argument leaves the factory alone.
attach_dataloaders(m, args) ==
    [m EXCEPT !.train_dataloader =
                  IF args.train_dataloader # "None"
                  THEN PatchDataLoader(args.train_dataloader) ELSE @,
              !.val_dataloader =
                  IF args.val_dataloaders # "None"
                  THEN PatchDataLoader(args.val_dataloaders) ELSE @,
              !.test_dataloader =
                  IF args.test_dataloaders # "None"
                  THEN PatchDataLoader(args.test_dataloaders) ELSE @]

\* check_model_configuration without its configure_optimizers check.
check_without_optimizers(m) ==
    IF ~is_overriden("training_step", m) THEN "no training_step"
    ELSE IF ~is_overriden("train_dataloader", m) THEN "no train_dataloader"
    ELSE IF is_overriden("val_dataloader", m) /\ ~is_overriden("validation_step", m)
        THEN "val_dataloader without validation_step"
    ELSE IF ~is_overriden("val_dataloader", m) /\ is_overriden("validation_step", m)
        THEN "validation_step without val_dataloader"
    ELSE IF is_overriden("test_dataloader", m) /\ ~is_overriden("test_step", m)
        THEN "test_dataloader without test_step"
    ELSE IF ~is_overriden("test_dataloader", m) /\ is_overriden("test_step", m)
        THEN "test_step without test_dataloader"
    ELSE "ok"

\* check_model_configuration without the else branches of its pair checks: a
\* step defined without its loader goes unnoticed.
check_without_else_branches(m) ==
    IF ~is_overriden("training_step", m) THEN "no training_step"
    ELSE IF ~is_overriden("train_dataloader", m) THEN "no train_dataloader"
    ELSE IF ~is_overriden("configure_optimizers", m) THEN "no configure_optimizers"
    ELSE IF is_overriden("val_dataloader", m) /\ ~is_overriden("validation_step", m)
        THEN "val_dataloader without validation_step"
    ELSE IF is_overriden("test_dataloader", m) /\ ~is_overriden("test_step", m)
        THEN "test_dataloader without test_step"
    ELSE "ok"

\* check_model_configuration: the message of the MisconfigurationException it
\* raises, or "ok".
check_model_configuration(m) ==
    IF ~is_overriden("training_step", m) THEN "no training_step"
    ELSE IF ~is_overriden("train_dataloader", m) THEN "no train_dataloader"
    ELSE IF ~is_overriden("configure_optimizers", m) THEN "no configure_optimizers"
    ELSE IF is_overriden("val_dataloader", m) /\ ~is_overriden("validation_step", m)
        THEN "val_dataloader without validation_step"
    ELSE IF ~is_overriden("val_dataloader", m) /\ is_overriden("validation_step", m)
        THEN "validation_step without val_dataloader"
    ELSE IF is_overriden("test_dataloader", m) /\ ~is_overriden("test_step", m)
        THEN "test_dataloader without test_step"
    ELSE IF ~is_overriden("test_dataloader", m) /\ is_overriden("test_step", m)
        THEN "test_step without test_dataloader"
    ELSE "ok"

\* The RuntimeWarnings check_model_configuration issues before it returns or
\* raises, in order: a loader/step pair without its *_epoch_end.
check_model_warnings(m) ==
    LET required == /\ is_overriden("training_step", m)
                    /\ is_overriden("train_dataloader", m)
                    /\ is_overriden("configure_optimizers", m)
        valPair == is_overriden("val_dataloader", m) /\ is_overriden("validation_step", m)
        valBad == is_overriden("val_dataloader", m) # is_overriden("validation_step", m)
        testPair == is_overriden("test_dataloader", m) /\ is_overriden("test_step", m)
    IN  (IF required /\ valPair /\ ~is_overriden("validation_epoch_end", m)
         THEN <<"warn: no validation_epoch_end">> ELSE <<>>)
        \o
        (IF required /\ ~valBad /\ testPair /\ ~is_overriden("test_epoch_end", m)
         THEN <<"warn: no test_epoch_end">> ELSE <<>>)

\* ------------------------------------------------------- configurations
\* use_tpu / on_tpu: set by the constructor when num_tpu_cores is not None.
use_tpu(cfg) == cfg.num_tpu_cores # 0

\* A plain CPU trainer.
DefaultConfig ==
    [use_ddp2 |-> FALSE, use_ddp |-> FALSE, use_dp |-> FALSE, single_gpu |-> FALSE,
     num_tpu_cores |-> 0, use_amp |-> FALSE, is_slurm_managing_tasks |-> FALSE,
     num_gpus |-> 0, num_sanity_val_steps |-> MaxSanity, val_percent_check |-> 100,
     fast_dev_run |-> FALSE, enable_early_stop |-> FALSE]

\* slurm_ntasks: the tasks SLURM started on this node (0: not under SLURM, so
\* SLURM_LOCALID is unset); val_batches: the length of the validation loader;
\* script_calls: how many fit()/test() calls the user's script makes.
DefaultEnv == [slurm_ntasks |-> 0, val_batches |-> 1, script_calls |-> 1]

\* A model that defines everything.
FullModel ==
    [training_step |-> "own", configure_optimizers |-> "own",
     validation_step |-> "own", test_step |-> "own",
     validation_epoch_end |-> "own", test_epoch_end |-> "own",
     train_dataloader |-> "own", val_dataloader |-> "own",
     test_dataloader |-> "own"]

\* A model with no validation and no test loop.
TrainOnlyModel ==
    [FullModel EXCEPT !.validation_step = "base", !.val_dataloader = "base",
                      !.validation_epoch_end = "base", !.test_step = "base",
                      !.test_dataloader = "base", !.test_epoch_end = "base"]

\* One configuration per execution strategy.
StrategyConfigs ==
    { DefaultConfig,
      [DefaultConfig EXCEPT !.use_dp = TRUE, !.num_gpus = MaxGpus],
      [DefaultConfig EXCEPT !.single_gpu = TRUE, !.num_gpus = 1],
      [DefaultConfig EXCEPT !.use_ddp = TRUE, !.num_gpus = MaxGpus],
      [DefaultConfig EXCEPT !.use_ddp2 = TRUE, !.num_gpus = MaxGpus],
      [DefaultConfig EXCEPT !.num_tpu_cores = 1] }

\* Every model shape (the two *_epoch_end methods defined together or not at
\* all) under every strategy.
ContractScenarios ==
    { <<c, [DefaultEnv EXCEPT !.slurm_ntasks = IF c.use_ddp2 THEN 1 ELSE 0], m>> :
        c \in StrategyConfigs,
        m \in {x \in Models : x.validation_epoch_end = x.test_epoch_end} }

\* The settings the pretrain routine reads, in scripts of one or more calls.
PretrainScenarios ==
    { <<[c EXCEPT !.num_sanity_val_steps = IF f THEN 0 ELSE n,
                  !.val_percent_check = v,
                  !.fast_dev_run = f,
                  !.enable_early_stop = es],
        [DefaultEnv EXCEPT !.val_batches = vb, !.script_calls = k], m>> :
        c \in {DefaultConfig, [DefaultConfig EXCEPT !.use_ddp = TRUE, !.num_gpus = 1]},
        n \in 0..MaxSanity, v \in {0, 100}, f \in BOOLEAN, es \in BOOLEAN,
        vb \in 1..MaxValBatches, k \in 1..MaxCalls,
        m \in {FullModel, TrainOnlyModel} }

\* Every combination of strategy flags, with the device counts and SLURM
\* settings that go with it.  SLURM manages the tasks only under ddp and when
\* it started one task per GPU; several tasks run fit() side by side only
\* under SLURM-managed ddp or ddp2.
LaunchConfigs ==
    { c \in [use_ddp2 : BOOLEAN, use_ddp : BOOLEAN, use_dp : BOOLEAN,
             single_gpu : BOOLEAN, num_tpu_cores : {0} \cup TpuCores,
             use_amp : BOOLEAN, is_slurm_managing_tasks : BOOLEAN,
             num_gpus : 0..MaxGpus, num_sanity_val_steps : {1},
             val_percent_check : {100}, fast_dev_run : {FALSE},
             enable_early_stop : {FALSE}] :
        LET gpu == c.use_ddp \/ c.use_ddp2 \/ c.use_dp \/ c.single_gpu
        IN  /\ c.is_slurm_managing_tasks => c.use_ddp
            /\ gpu <=> c.num_gpus >= 1
            /\ gpu => ~c.use_amp /\ c.num_tpu_cores # MaxTpuCores
            /\ use_tpu(c) => ~c.use_amp }

LaunchScenarios ==
    { <<c, [DefaultEnv EXCEPT !.slurm_ntasks = n], FullModel>> :
        c \in LaunchConfigs, n \in 0..MaxGpus }

Consistent(s) ==
    LET c == s[1]
        e == s[2]
    IN  /\ c.is_slurm_managing_tasks => e.slurm_ntasks = c.num_gpus
        /\ e.slurm_ntasks >= 1 =>
              /\ c.is_slurm_managing_tasks \/ c.use_ddp2
              /\ e.slurm_ntasks = c.num_gpus

Scenarios ==
    { s \in ContractScenarios \cup PretrainScenarios \cup LaunchScenarios :
        Consistent(s) }

\* The processes that call fit()/test() themselves.
Callers == IF env.slurm_ntasks >= 1 THEN 0..(env.slurm_ntasks - 1) ELSE {0}

\* A freshly constructed trainer's run state (Trainer.__init__, training state).
\* task: the process index the launcher was called with (<<>>: not called).
NewTrainer == [testing |-> FALSE, disable_validation |-> FALSE,
               model |-> "None", optimizers |-> "None", proc_rank |-> 0,
               task |-> <<>>,
               global_step |-> 0, current_epoch |-> 0, batch_idx |-> 0]

\* A script about to use a trainer built for scenario s.
FitInit(s) ==
    /\ config = s[1] /\ env = s[2] /\ model = s[3]
    /\ trainer = [p \in Procs |-> NewTrainer]
    /\ role = [p \in Procs |-> IF p \in Callers THEN "caller" ELSE "absent"]
    /\ pc = [p \in Procs |-> "idle"]
    /\ api = [p \in Procs |-> "none"]
    /\ ncalls = [p \in Procs |-> 0]
    /\ strategy = [p \in Procs |-> "none"]
    /\ calls = [p \in Procs |-> <<>>]
    /\ outcome = [p \in Procs |-> "none"]
    /\ fit_result = [p \in Procs |-> <<>>]
    /\ error = [p \in Procs |-> ""]
    /\ arrived = [p \in Procs |-> 0]
    /\ sanity_batches = [p \in Procs |-> 0]
    /\ fit_args = [p \in Procs |-> NoLoaders]

\* ------------------------------------------------------------- helpers
Workers == {p \in Procs : role[p] = "worker"}

\* The processes a process meets at the barrier: the workers of the spawn, the
\* SLURM tasks of the run, or nobody else.
World(p) ==
    IF role[p] = "worker" THEN Workers
    ELSE IF strategy[p] \in {"ddp2", "ddp"} THEN Callers
    ELSE {p}

\* An exception leaves the call: a caller is back at top level with nothing
\* returned, a worker process exits.
Raise(p, exc, msg) ==
    /\ outcome' = [outcome EXCEPT ![p] = exc]
    /\ error' = [error EXCEPT ![p] = msg]
    /\ pc' = [pc EXCEPT ![p] = IF role[p] = "worker" THEN "exited" ELSE "idle"]

Log(p, events) == calls' = [calls EXCEPT ![p] = @ \o events]

\* A new top-level call starts: what the previous call left is cleared.
BeginCall(p, name) ==
    /\ pc[p] = "idle"
    /\ role[p] = "caller"
    /\ ncalls[p] < env.script_calls
    /\ \A q \in Procs : role[q] = "worker" => pc[q] = "exited"
    /\ api' = [api EXCEPT ![p] = name]
    /\ ncalls' = [ncalls EXCEPT ![p] = @ + 1]
    /\ strategy' = [strategy EXCEPT ![p] = "none"]
    /\ outcome' = [outcome EXCEPT ![p] = "none"]
    /\ fit_result' = [fit_result EXCEPT ![p] = <<>>]
    /\ error' = [error EXCEPT ![p] = ""]
    /\ sanity_batches' = [sanity_batches EXCEPT ![p] = 0]

\* ------------------------------------------------------------------- fit
\* fit, first statements: bind the logger and the trainer's properties to the
\* model, attach the passed loaders.
EnterFit(p, args) ==
    /\ fit_args' = [fit_args EXCEPT ![p] = args]
    /\ model' = attach_dataloaders(model, args)
    /\ pc' = [pc EXCEPT ![p] = "check"]

\* trainer.fit(model, train_dataloader, val_dataloaders, test_dataloaders)
CallFit(p, args) ==
    /\ BeginCall(p, "fit")
    /\ EnterFit(p, args)
    /\ calls' = [calls EXCEPT ![p] = <<"fit", "attach_dataloaders">>]
    /\ UNCHANGED <<config, env, trainer, role, arrived>>
    /\ UNCHANGED <<callbackVars, loggerVars, trainVars, optimVars>>

\* fit: self.check_model_configuration(model)
CheckModel(p) ==
    /\ pc[p] = "check"
    /\ Log(p, <<"check_model_configuration">> \o check_model_warnings(model))
    /\ IF check_model_configuration(model) = "ok"
       THEN /\ pc' = [pc EXCEPT ![p] = "prepare"]
            /\ UNCHANGED <<outcome, error>>
       ELSE Raise(p, "MisconfigurationException", check_model_configuration(model))
    /\ fit_args' = [fit_args EXCEPT ![p] = NoLoaders]
    /\ UNCHANGED <<config, env, model, trainer, role, api, ncalls, strategy,
                   fit_result, arrived, sanity_batches>>
    /\ UNCHANGED <<callbackVars, loggerVars, trainVars, optimVars>>

\* fit: model.prepare_data()
PrepareData(p) ==
    /\ pc[p] = "prepare"
    /\ Log(p, <<"prepare_data">>)
    /\ pc' = [pc EXCEPT ![p] = "route"]
    /\ UNCHANGED <<fit_args, config, env, model, trainer, role, api, ncalls, strategy,
                   outcome, fit_result, error, arrived, sanity_batches>>
    /\ UNCHANGED <<callbackVars, loggerVars, trainVars, optimVars>>

\* A chain that tests use_ddp before use_ddp2.
RouteDdpFirst(cfg) ==
    IF cfg.use_ddp THEN "ddp"
    ELSE IF cfg.use_ddp2 THEN "ddp2"
    ELSE IF cfg.use_dp THEN "dp"
    ELSE IF cfg.single_gpu THEN "single_gpu"
    ELSE IF use_tpu(cfg) THEN "tpu"
    ELSE "cpu"

\* The branch of fit's if/elif chain that runs.
Route(cfg) ==
    IF cfg.use_ddp2 THEN "ddp2"
    ELSE IF cfg.use_ddp THEN "ddp"
    ELSE IF cfg.use_dp THEN "dp"
    ELSE IF cfg.single_gpu THEN "single_gpu"
    ELSE IF use_tpu(cfg) THEN "tpu"
    ELSE "cpu"

\* A spawn that always asks for one process per GPU.
SpawnCountGpus(cfg) == cfg.num_gpus

\* The number of processes fit asks spawn for.
SpawnCount(cfg) ==
    IF Route(cfg) = "ddp" THEN cfg.num_gpus ELSE cfg.num_tpu_cores

\* A fit that starts the launcher itself under ddp2 only.
LaunchesDirectlyDdp2Only(cfg) == Route(cfg) = "ddp2"

\* Whether fit calls ddp_train itself instead of spawning: under ddp2, and
\* under ddp when SLURM manages the tasks.
LaunchesDirectly(cfg) ==
    \/ Route(cfg) = "ddp2"
    \/ Route(cfg) = "ddp" /\ cfg.is_slurm_managing_tasks

\* os.environ['SLURM_LOCALID'] in process p: SLURM numbers the tasks it
\* started on the node from 0; the variable is absent outside SLURM.
SlurmLocalId(p) == IF env.slurm_ntasks = 0 THEN <<>> ELSE <<p>>

\* fit, ddp2 branch and SLURM-managed ddp branch: the task's local rank is
\* read from SLURM_LOCALID and ddp_train runs in the calling process.
FitDirectDDP(p) ==
    /\ pc[p] = "route"
    /\ Route(config) \in {"ddp2", "ddp"}
    /\ LaunchesDirectly(config)
    /\ strategy' = [strategy EXCEPT ![p] = Route(config)]
    /\ IF SlurmLocalId(p) = <<>>
       THEN /\ Raise(p, "KeyError", "SLURM_LOCALID")
            /\ UNCHANGED <<calls, trainer>>
       ELSE /\ Log(p, <<"ddp_train">>)
            /\ trainer' = [trainer EXCEPT ![p].task = SlurmLocalId(p)]
            /\ pc' = [pc EXCEPT ![p] = "ddp_train"]
            /\ UNCHANGED <<outcome, error>>
    /\ UNCHANGED <<fit_args, config, env, model, role, api, ncalls,
                   fit_result, arrived, sanity_batches>>
    /\ UNCHANGED <<callbackVars, loggerVars, trainVars, optimVars>>

\* fit, ddp branch without SLURM and TPU branch: self.model = model, then
\* spawn nprocs workers, each running ddp_train / tpu_train on a pickled copy
\* of the trainer, and wait for them.
FitSpawn(p) ==
    /\ pc[p] = "route"
    /\ Route(config) \in {"ddp", "tpu"}
    /\ ~LaunchesDirectly(config)
    /\ strategy' = [strategy EXCEPT ![p] = Route(config)]
    /\ LET new == 1..SpawnCount(config)
           mine == [trainer[p] EXCEPT !.model = "m"]
           entry == IF Route(config) = "ddp" THEN "ddp_train" ELSE "tpu_train"
       IN  /\ trainer' = [q \in Procs |-> IF q = p THEN mine
                                          ELSE IF q \in new
                                          THEN [mine EXCEPT !.task = <<q - 1>>]
                                          ELSE trainer[q]]
           /\ role' = [q \in Procs |-> IF q \in new THEN "worker" ELSE role[q]]
           /\ pc' = [q \in Procs |-> IF q = p THEN "join"
                                     ELSE IF q \in new THEN entry ELSE pc[q]]
           /\ arrived' = [q \in Procs |-> IF q \in new THEN 0 ELSE arrived[q]]
           /\ calls' = [q \in Procs |-> IF q = p THEN calls[p] \o <<"spawn">>
                                        ELSE IF q \in new THEN <<>> ELSE calls[q]]
           /\ outcome' = [q \in Procs |-> IF q \in new THEN "none" ELSE outcome[q]]
           /\ error' = [q \in Procs |-> IF q \in new THEN "" ELSE error[q]]
           /\ sanity_batches' = [q \in Procs |-> IF q \in new THEN 0 ELSE sanity_batches[q]]
    /\ UNCHANGED <<fit_args, config, env, model, api, ncalls, fit_result>>
    /\ UNCHANGED <<callbackVars, loggerVars, trainVars, optimVars>>

\* fit, dp branch and single-GPU branch.
FitSingleProcessGPU(p) ==
    /\ pc[p] = "route"
    /\ Route(config) \in {"dp", "single_gpu"}
    /\ strategy' = [strategy EXCEPT ![p] = Route(config)]
    /\ Log(p, <<Route(config) \o "_train">>)
    /\ pc' = [pc EXCEPT ![p] = Route(config) \o "_train"]
    /\ UNCHANGED <<fit_args, config, env, model, trainer, role, api, ncalls, outcome,
                   fit_result, error, arrived, sanity_batches>>
    /\ UNCHANGED <<callbackVars, loggerVars, trainVars, optimVars>>

\* ---------------------------------------------------- run_pretrain_routine
\* A pretrain routine without rendezvous.
BarriersNone(cfg) == <<>>

\* The rendezvous calls of the pretrain routine, in the order it makes them.
\* (torch_xla is available wherever a TPU run gets this far.)
Barriers(cfg) ==
    (IF cfg.use_ddp \/ cfg.use_ddp2 THEN <<"torch_distrib.barrier">> ELSE <<>>)
    \o (IF use_tpu(cfg) THEN <<"rendezvous pl.Trainer.run_pretrain_routine">> ELSE <<>>)

BarrierNames == {"torch_distrib.barrier", "rendezvous pl.Trainer.run_pretrain_routine"}

\* How many rendezvous calls the current call of p has entered.
Entered(p) == Len(SelectSeq(calls[p], LAMBDA e : e \in BarrierNames))

\* What run_pretrain_routine invokes up to and including its first rendezvous
\* call: the trainer and its properties are bound to the model, the
\* hyperparameters are logged, the logger is saved.
PrepareCalls(cfg) ==
    <<"run_pretrain_routine", "copy_trainer_model_properties",
      "log_hyperparams", "logger.save">>
    \o (IF Barriers(cfg) = <<>> THEN <<>> ELSE <<Barriers(cfg)[1]>>)

\* run_pretrain_routine is entered and runs up to its first rendezvous, where
\* the process blocks.
EnterPretrain(p, before) ==
    /\ Log(p, before \o PrepareCalls(config))
    /\ pc' = [pc EXCEPT ![p] = "barrier"]
    /\ arrived' = [arrived EXCEPT ![p] = IF Barriers(config) = <<>> THEN @ ELSE @ + 1]

\* A CPU branch that lets amp through.
AmpOnCpuAccepted(cfg) == FALSE

\* fit, CPU branch: whether the configuration is refused (amp needs a GPU).
AmpOnCpuRefused(cfg) == cfg.use_amp

\* A CPU branch that initialises the optimizers before it looks at amp.
FitCPUCheckingLate(p) ==
    /\ pc[p] = "route"
    /\ Route(config) = "cpu"
    /\ strategy' = [strategy EXCEPT ![p] = "cpu"]
    /\ trainer' = [trainer EXCEPT ![p].optimizers = "set"]
    /\ IF AmpOnCpuRefused(config)
       THEN /\ Raise(p, "MisconfigurationException", "amp + cpu is not supported")
            /\ Log(p, <<"init_optimizers">>)
            /\ UNCHANGED arrived
       ELSE /\ EnterPretrain(p, <<"init_optimizers">>)
            /\ UNCHANGED <<outcome, error>>
    /\ UNCHANGED <<fit_args, config, env, model, role, api, ncalls,
                   fit_result, sanity_batches>>
    /\ UNCHANGED <<callbackVars, loggerVars, trainVars, optimVars>>

\* fit, CPU branch: amp is refused, else the optimizers are initialised and
\* the pretrain routine is entered.
FitCPU(p) ==
    /\ pc[p] = "route"
    /\ Route(config) = "cpu"
    /\ strategy' = [strategy EXCEPT ![p] = "cpu"]
    /\ IF AmpOnCpuRefused(config)
       THEN /\ Raise(p, "MisconfigurationException", "amp + cpu is not supported")
            /\ UNCHANGED <<trainer, calls, arrived>>
       ELSE /\ trainer' = [trainer EXCEPT ![p].optimizers = "set"]
            /\ EnterPretrain(p, <<"init_optimizers">>)
            /\ UNCHANGED <<outcome, error>>
    /\ UNCHANGED <<fit_args, config, env, model, role, api, ncalls,
                   fit_result, sanity_batches>>
    /\ UNCHANGED <<callbackVars, loggerVars, trainVars, optimVars>>

\* ------------------------------------------------- the strategy launchers
\* ddp_train / dp_train / single_gpu_train / tpu_train: set the process rank,
\* initialise the optimizers, then enter the pretrain routine.
StrategyTrain(p) ==
    /\ pc[p] \in {"ddp_train", "dp_train", "single_gpu_train", "tpu_train"}
    /\ trainer' = [trainer EXCEPT ![p].optimizers = "set",
                                  ![p].proc_rank = IF trainer[p].task = <<>> THEN 0
                                                   ELSE trainer[p].task[1]]
    /\ EnterPretrain(p, <<"init_optimizers">>)
    /\ UNCHANGED <<fit_args, config, env, model, role, api, ncalls, strategy, outcome,
                   fit_result, error, sanity_batches>>
    /\ UNCHANGED <<callbackVars, loggerVars, trainVars, optimVars>>

\* A rendezvous returns once every process of the run has entered it.
Released(p) == \A q \in World(p) : arrived[q] >= arrived[p]

\* The first rendezvous has returned and the routine makes another one.
BarrierNext(p) ==
    /\ pc[p] = "barrier"
    /\ Released(p)
    /\ Entered(p) < Len(Barriers(config))
    /\ Log(p, <<Barriers(config)[Entered(p) + 1]>>)
    /\ arrived' = [arrived EXCEPT ![p] = @ + 1]
    /\ UNCHANGED <<fit_args, config, env, model, trainer, role, pc, api, ncalls, strategy,
                   outcome, fit_result, error, sanity_batches>>
    /\ UNCHANGED <<callbackVars, loggerVars, trainVars, optimVars>>

\* A switch that looks at validation_step only, not at val_percent_check.
DisableValidationIgnoringPercent(cfg, m) ==
    ~is_overriden("validation_step", m) /\ ~cfg.fast_dev_run

\* disable_validation as the pretrain routine computes it.
DisableValidation(cfg, m) ==
    ~(is_overriden("validation_step", m) /\ cfg.val_percent_check > 0)
    /\ ~cfg.fast_dev_run

\* A sanity check that ignores num_sanity_val_steps.
RunsSanityCheckAlways(cfg, m) == ~DisableValidation(cfg, m)

\* Whether the validation sanity check runs.
RunsSanityCheck(cfg, m) ==
    ~DisableValidation(cfg, m) /\ cfg.num_sanity_val_steps > 0

\* _evaluate(model, dataloaders, max_batches): the batches evaluated per loader.
EvaluatedBatches(len, max_batches) == Min(len, max_batches)

\* What the pretrain routine invokes outside test mode: the sanity-check hook,
\* the sanity check when it runs (its callback metrics go to the early-stop
\* callback when early stopping is enabled), then the training loop.
SanityAndTrain(cfg, m) ==
    <<"on_sanity_check_start">>
    \o (IF RunsSanityCheck(cfg, m)
        THEN <<"reset_val_dataloader", "sanity_check">>
             \o (IF cfg.enable_early_stop
                 THEN <<"early_stop_callback.check_metrics">> ELSE <<>>)
        ELSE <<>>)
    \o <<"train">>

\* A pretrain routine without its test-mode branch.
PretrainCallsIgnoringTesting(cfg, m, testing) ==
    <<"restore_weights">> \o SanityAndTrain(cfg, m)

\* What the pretrain routine invokes after its rendezvous, in order.
PretrainCalls(cfg, m, testing) ==
    <<"restore_weights">>
    \o (IF testing THEN <<"run_evaluation(test_mode)">> ELSE SanityAndTrain(cfg, m))

\* A training loop that writes its counters into the trainer of process 0.
TrainCountersShared(p) == 0

\* The trainer object whose counters the training loop run by process p
\* advances: its own.
TrainCounters(p) == p

\* train(), seen from outside: a loop of two epochs of two batches leaves
\* global_step 4, current_epoch 1 and batch_idx 1.
Trained(t) == [t EXCEPT !.global_step = 4, !.current_epoch = 1, !.batch_idx = 1]

\* run_pretrain_routine after its rendezvous: track the model, restore the
\* weights; when testing only the test evaluation runs; else the sanity check
\* (if any) and then train().  The evaluation or the training may fail.
PretrainRun(p, ok) ==
    /\ pc[p] = "barrier"
    /\ Released(p)
    /\ Entered(p) = Len(Barriers(config))
    /\ Log(p, PretrainCalls(config, model, trainer[p].testing))
    /\ LET t1 == [trainer EXCEPT
                      ![p].model = "m",
                      ![p].disable_validation =
                          IF trainer[p].testing THEN @ ELSE DisableValidation(config, model)]
       IN  trainer' = IF ok /\ ~trainer[p].testing
                      THEN [t1 EXCEPT ![TrainCounters(p)] = Trained(@)]
                      ELSE t1
    /\ sanity_batches' = [sanity_batches EXCEPT ![p] =
                             IF ~trainer[p].testing /\ RunsSanityCheck(config, model)
                             THEN EvaluatedBatches(env.val_batches, config.num_sanity_val_steps)
                             ELSE @]
    /\ IF ok
       THEN /\ pc' = [pc EXCEPT ![p] = IF role[p] = "worker" THEN "exited" ELSE "fit_return"]
            /\ outcome' = [outcome EXCEPT ![p] = IF role[p] = "worker" THEN "returned" ELSE @]
            /\ UNCHANGED error
       ELSE Raise(p, "RuntimeFailure", "training routine failed")
    /\ UNCHANGED <<fit_args, config, env, model, role, api, ncalls, strategy,
                   fit_result, arrived>>
    /\ UNCHANGED <<callbackVars, loggerVars, trainVars, optimVars>>

\* fit after spawn: spawn returns when every worker has exited, and raises
\* when a worker failed (the other workers are terminated); then the spawned
\* weights are loaded and self.model = model.
SpawnJoin(p) ==
    /\ pc[p] = "join"
    /\ LET failed == {w \in Workers : pc[w] = "exited" /\ outcome[w] # "returned"}
       IN  IF failed # {}
           THEN /\ outcome' = [q \in Procs |->
                                 IF q = p THEN "Exception"
                                 ELSE IF q \in Workers /\ pc[q] # "exited" THEN "terminated"
                                 ELSE outcome[q]]
                /\ error' = [error EXCEPT ![p] = "a spawned process failed"]
                /\ pc' = [q \in Procs |-> IF q = p THEN "idle"
                                          ELSE IF q \in Workers THEN "exited" ELSE pc[q]]
                /\ UNCHANGED <<calls, trainer>>
           ELSE /\ \A w \in Workers : pc[w] = "exited"
                /\ Log(p, <<"load_spawn_weights">>)
                /\ trainer' = [trainer EXCEPT ![p].model = "m"]
                /\ pc' = [pc EXCEPT ![p] = "fit_return"]
                /\ UNCHANGED <<outcome, error>>
    /\ UNCHANGED <<fit_args, config, env, model, role, api, ncalls, strategy,
                   fit_result, arrived, sanity_batches>>
    /\ UNCHANGED <<callbackVars, loggerVars, trainVars, optimVars>>

\* What fit returns.
FitReturnValue == 1

\* A fit that takes the passed loaders off the model when it returns.
FitReturnDetaching(p) ==
    /\ pc[p] = "fit_return"
    /\ fit_result' = [fit_result EXCEPT ![p] = <<FitReturnValue>>]
    /\ model' = [name \in DOMAIN model |->
                    IF model[name] \in {"base", "own"} THEN model[name] ELSE "base"]
    /\ Log(p, <<"fit returns">>)
    /\ IF api[p] = "test"
       THEN /\ pc' = [pc EXCEPT ![p] = "test_return"]
            /\ UNCHANGED outcome
       ELSE /\ pc' = [pc EXCEPT ![p] = "idle"]
            /\ outcome' = [outcome EXCEPT ![p] = "returned"]
    /\ UNCHANGED <<fit_args, config, env, trainer, role, api, ncalls, strategy,
                   error, arrived, sanity_batches>>
    /\ UNCHANGED <<callbackVars, loggerVars, trainVars, optimVars>>

\* A fit that lets go of the model when it returns.
FitReturnReleasing(p) ==
    /\ pc[p] = "fit_return"
    /\ fit_result' = [fit_result EXCEPT ![p] = <<FitReturnValue>>]
    /\ trainer' = [trainer EXCEPT ![p].model = "None"]
    /\ Log(p, <<"fit returns">>)
    /\ IF api[p] = "test"
       THEN /\ pc' = [pc EXCEPT ![p] = "test_return"]
            /\ UNCHANGED outcome
       ELSE /\ pc' = [pc EXCEPT ![p] = "idle"]
            /\ outcome' = [outcome EXCEPT ![p] = "returned"]
    /\ UNCHANGED <<fit_args, config, env, model, role, api, ncalls, strategy,
                   error, arrived, sanity_batches>>
    /\ UNCHANGED <<callbackVars, loggerVars, trainVars, optimVars>>

\* fit: return 1.  Inside test() control is back in test.
FitReturn(p) ==
    /\ pc[p] = "fit_return"
    /\ fit_result' = [fit_result EXCEPT ![p] = <<FitReturnValue>>]
    /\ Log(p, <<"fit returns">>)
    /\ IF api[p] = "test"
       THEN /\ pc' = [pc EXCEPT ![p] = "test_return"]
            /\ UNCHANGED outcome
       ELSE /\ pc' = [pc EXCEPT ![p] = "idle"]
            /\ outcome' = [outcome EXCEPT ![p] = "returned"]
    /\ UNCHANGED <<fit_args, config, env, model, trainer, role, api, ncalls, strategy,
                   error, arrived, sanity_batches>>
    /\ UNCHANGED <<callbackVars, loggerVars, trainVars, optimVars>>

\* ------------------------------------------------------------------ test
\* trainer.test(model), and trainer.test() under ddp or TPU: the testing flag
\* is set and fit is called.
TestWithFit(p, withModel) ==
    /\ BeginCall(p, "test")
    /\ \/ withModel
       \/ ~withModel /\ trainer[p].model # "None" /\ (config.use_ddp \/ use_tpu(config))
    /\ trainer' = [trainer EXCEPT ![p].testing = TRUE, ![p].model = "m"]
    /\ EnterFit(p, NoLoaders)
    /\ calls' = [calls EXCEPT ![p] = <<"test", "fit", "attach_dataloaders">>]
    /\ UNCHANGED <<config, env, role, arrived>>
    /\ UNCHANGED <<callbackVars, loggerVars, trainVars, optimVars>>

\* trainer.test() otherwise: the testing flag is set and the test evaluation
\* runs on the model of the last fit.
TestEvalOnly(p) ==
    /\ BeginCall(p, "test")
    /\ trainer[p].model # "None"
    /\ ~(config.use_ddp \/ use_tpu(config))
    /\ trainer' = [trainer EXCEPT ![p].testing = TRUE]
    /\ calls' = [calls EXCEPT ![p] = <<"test", "run_evaluation(test_mode)">>]
    /\ pc' = [pc EXCEPT ![p] = "test_return"]
    /\ UNCHANGED <<fit_args, config, env, model, role, arrived>>
    /\ UNCHANGED <<callbackVars, loggerVars, trainVars, optimVars>>

\* test, last statement: self.testing = False.
TestReturn(p) ==
    /\ pc[p] = "test_return"
    /\ trainer' = [trainer EXCEPT ![p].testing = FALSE]
    /\ Log(p, <<"test returns">>)
    /\ outcome' = [outcome EXCEPT ![p] = "returned"]
    /\ pc' = [pc EXCEPT ![p] = "idle"]
    /\ UNCHANGED <<fit_args, config, env, model, role, api, ncalls, strategy,
                   fit_result, error, arrived, sanity_batches>>
    /\ UNCHANGED <<callbackVars, loggerVars, trainVars, optimVars>>

\* ------------------------------------------- the constructor and its hooks
MaxListLen == 2
MaxDispatches == 1
MaxAppends == 1

\* The trainers a script constructs, one after the other, and the callback
\* objects it has at hand.
TrainerIds == {1, 2}
CallbackIds == {"cb_a", "cb_b"}

\* The list object that is the default of the constructor's callbacks
\* argument; the list passed to trainer t is referred to as t.
DefaultList == 0
ListRefs == {DefaultList} \cup TrainerIds

CallbackLists == UNION {[1..n -> CallbackIds] : n \in 0..MaxListLen}

\* The twelve hooks of TrainerCallbackHookMixin.
InitHooks == {"on_init_start", "on_init_end"}
RunHooks == {"on_epoch_start", "on_epoch_end", "on_train_start", "on_train_end",
             "on_batch_start", "on_batch_end", "on_validation_start",
             "on_validation_end", "on_test_start", "on_test_end"}

\* What a dispatcher passes to the hook: the trainer, and for the run hooks
\* the model too.
HookArgs(h) == IF h \in InitHooks THEN <<"trainer">> ELSE <<"trainer", "model">>

\* for callback in self.callbacks: callback.<hook>(...), from position i on.
RECURSIVE InvokeFrom(_, _, _)
InvokeFrom(cbs, h, i) ==
    IF i > Len(cbs) THEN <<>>
    ELSE <<[callback |-> cbs[i], hook |-> h, args |-> HookArgs(h)]>>
         \o InvokeFrom(cbs, h, i + 1)

\* A dispatch that goes through the list backwards.
DispatchReversed(cbs, h) ==
    [i \in 1..Len(cbs) |->
        [callback |-> cbs[Len(cbs) + 1 - i], hook |-> h, args |-> HookArgs(h)]]

\* One dispatcher call: the invocations it makes, in order.
Dispatch(cbs, h) == InvokeFrom(cbs, h, 1)

\* The groups of attributes the constructor assigns, in the order it builds
\* them.
AllFields == {"callbacks", "num_tpu_cores", "training_state", "precision", "use_amp"}

\* A constructor that fires on_init_start only after everything is built.
InitStartFieldsLate == AllFields

\* What the constructor has assigned when it calls on_init_start.
InitStartFields == {"callbacks"}

\* What it has assigned when the num_tpu_cores assertion runs, and when the
\* precision assertion runs.
TpuAssertFields == {"callbacks", "num_tpu_cores"}
PrecisionAssertFields == {"callbacks", "num_tpu_cores", "training_state", "precision"}

\* The (num_tpu_cores, precision) arguments tried: accepted ones, a refused
\* core count, a refused precision.
InitArgs == {<<0, 32>>, <<MaxTpuCores, 16>>, <<2, 32>>, <<0, 64>>}

Unborn == [pc |-> "unborn", callbacks |-> <<>>, fields |-> {},
           num_tpu_cores |-> 0, precision |-> 32, error |-> "", added |-> <<>>]

CallbacksInit ==
    /\ callback_lists = [r \in ListRefs |-> <<>>]
    /\ trainers = [t \in TrainerIds |-> Unborn]
    /\ hook_log = <<>>

\* The callbacks registered on trainer t.
Registered(t) == callback_lists[trainers[t].callbacks[1]]

\* A constructor call is in progress.
Constructing == \E t \in TrainerIds : trainers[t].pc \in {"init_started", "built"}

DispatchRecord(t, h, fields, cbs) ==
    [trainer |-> t, hook |-> h, fields |-> fields, list |-> cbs,
     invoked |-> Dispatch(cbs, h)]

\* Trainer(callbacks=...), first statements: the callback list is stored and
\* on_init_start is dispatched.
TrainerInitStart(t, given, cbs, arg) ==
    /\ trainers[t].pc = "unborn"
    /\ given \/ cbs = <<>>
    /\ ~Constructing
    /\ \A u \in TrainerIds : u < t => trainers[u].pc # "unborn"
    /\ LET ref == IF given THEN t ELSE DefaultList
           lists == IF given THEN [callback_lists EXCEPT ![t] = cbs] ELSE callback_lists
       IN  /\ callback_lists' = lists
           /\ trainers' = [trainers EXCEPT ![t] =
                             [pc |-> "init_started", callbacks |-> <<ref>>,
                              fields |-> InitStartFields,
                              num_tpu_cores |-> arg[1], precision |-> arg[2],
                              error |-> "", added |-> <<>>]]
           /\ hook_log' = Append(hook_log,
                 DispatchRecord(t, "on_init_start", InitStartFields, lists[ref]))
    /\ UNCHANGED <<fitVars, loggerVars, trainVars, optimVars>>

\* The constructor between the two hooks: the trainer state is built; the
\* num_tpu_cores and precision assertions may end the construction.
TrainerInitBuild(t) ==
    /\ trainers[t].pc = "init_started"
    /\ trainers' = [trainers EXCEPT ![t] =
          IF trainers[t].num_tpu_cores \notin {0} \cup TpuCores
          THEN [@ EXCEPT !.pc = "failed", !.fields = TpuAssertFields,
                         !.error = "num_tpu_cores can only be 1 or 8"]
          ELSE IF trainers[t].precision \notin {16, 32}
          THEN [@ EXCEPT !.pc = "failed", !.fields = PrecisionAssertFields,
                         !.error = "only 32 or 16 bit precision supported"]
          ELSE [@ EXCEPT !.pc = "built", !.fields = AllFields]]
    /\ UNCHANGED <<callback_lists, hook_log, fitVars, loggerVars, trainVars, optimVars>>

\* The constructor's last statement: on_init_end is dispatched.
TrainerInitEnd(t) ==
    /\ trainers[t].pc = "built"
    /\ trainers' = [trainers EXCEPT ![t].pc = "constructed"]
    /\ hook_log' = Append(hook_log,
          DispatchRecord(t, "on_init_end", trainers[t].fields, Registered(t)))
    /\ UNCHANGED <<callback_lists, fitVars, loggerVars, trainVars, optimVars>>

\* The dispatches of run hooks made so far.
RunDispatches == Len(SelectSeq(hook_log, LAMBDA r : r.hook \in RunHooks))

\* A training, validation or test loop calls one of the ten run-hook
\* dispatchers of a constructed trainer.
RunHook(t, h) ==
    /\ trainers[t].pc = "constructed"
    /\ ~Constructing
    /\ RunDispatches < MaxDispatches
    /\ hook_log' = Append(hook_log,
          DispatchRecord(t, h, trainers[t].fields, Registered(t)))
    /\ UNCHANGED <<callback_lists, trainers, fitVars, loggerVars, trainVars, optimVars>>

\* The callbacks the script has added to trainers after constructing them.
Appends == Len(trainers[1].added) + Len(trainers[2].added)

\* trainer.callbacks.append(cb) in the script: the list object the trainer's
\* callbacks attribute refers to grows by cb; added records through which
\* trainer the script reached the list.
AppendCallback(t, cb) ==
    /\ trainers[t].pc = "constructed"
    /\ ~Constructing
    /\ Appends < MaxAppends
    /\ callback_lists' = [callback_lists EXCEPT
                             ![trainers[t].callbacks[1]] = Append(@, cb)]
    /\ trainers' = [trainers EXCEPT ![t].added = Append(@, cb)]
    /\ UNCHANGED <<hook_log, fitVars, loggerVars, trainVars, optimVars>>

\* ------------------------------------------------- the TensorBoard logger
MaxRank == 1
MaxLoggerOps == 4

\* The ranks of a run.  Each process has its own logger object, which no
\* other process touches: one process and its logger are followed.
Ranks == 0..MaxRank

\* The hyperparameter sets and the metric lists handed to the logger.
ParamSets == SUBSET {"lr", "batch_size"}
MetricLists == {<<>>, <<"loss">>, <<"loss", "acc">>}

\* TensorBoardLogger.__init__, with the rank the launcher gave the logger.
NewLogger(r) ==
    [rank |-> r, experiment |-> "None", tags |-> {}, writes |-> <<>>,
     meta_tags |-> <<>>, called |-> {}, ops |-> 0]

LoggersInit ==
    /\ logger \in {NewLogger(r) : r \in Ranks}
    /\ torch_version \in {"old", "new"}

\* The logger of the calling process, not called yet.
LoggerIdle ==
    /\ logger = NewLogger(0)
    /\ torch_version = "new"

\* The rank_zero_only decorator: the wrapped method runs on rank 0 and is
\* skipped on every other rank.
rank_zero_only(l, after) == IF l.rank = 0 THEN after ELSE l

\* The experiment property: the SummaryWriter is created on first use.
experiment(l) ==
    IF l.experiment # "None" THEN l ELSE [l EXCEPT !.experiment = "SummaryWriter"]

\* The body of log_hyperparams: three summaries are written when torch can
\* log hyperparameters; the tags mapping is updated either way.
log_hyperparams_body(l, params, tv) ==
    LET w == IF tv = "old" THEN l
             ELSE [experiment(l) EXCEPT
                      !.writes = @ \o <<"add_summary", "add_summary", "add_summary">>]
    IN  [w EXCEPT !.tags = @ \cup params]

log_hyperparams(l, params, tv) == rank_zero_only(l, log_hyperparams_body(l, params, tv))

\* The body of log_metrics: one add_scalar per metric.
RECURSIVE log_metrics_body(_, _)
log_metrics_body(l, metrics) ==
    IF metrics = <<>> THEN l
    ELSE log_metrics_body([experiment(l) EXCEPT !.writes = Append(@, "add_scalar")],
                          Tail(metrics))

\* log_metrics without the decorator.
log_metrics_undecorated(l, metrics) == log_metrics_body(l, metrics)

log_metrics(l, metrics) == rank_zero_only(l, log_metrics_body(l, metrics))

\* The body of save: the writer is flushed and meta_tags.csv is written with
\* the current tags.
save_body(l) ==
    [experiment(l) EXCEPT !.writes = Append(@, "flush"), !.meta_tags = <<l.tags>>]

save(l) == rank_zero_only(l, save_body(l))

\* finalize calls self.save().
finalize(l, status) == rank_zero_only(l, save(l))

\* One call of a logger method leaves the logger as after.
LoggerCall(name, after) ==
    logger' = [after EXCEPT !.called = @ \cup {name}, !.ops = @ + 1]

LogHyperparams(params) ==
    /\ logger.ops < MaxLoggerOps
    /\ LoggerCall("log_hyperparams", log_hyperparams(logger, params, torch_version))
    /\ UNCHANGED <<torch_version, fitVars, callbackVars, trainVars, optimVars>>

LogMetrics(metrics) ==
    /\ logger.ops < MaxLoggerOps
    /\ LoggerCall("log_metrics", log_metrics(logger, metrics))
    /\ UNCHANGED <<torch_version, fitVars, callbackVars, trainVars, optimVars>>

Save ==
    /\ logger.ops < MaxLoggerOps
    /\ LoggerCall("save", save(logger))
    /\ UNCHANGED <<torch_version, fitVars, callbackVars, trainVars, optimVars>>

Finalize(status) ==
    /\ logger.ops < MaxLoggerOps
    /\ LoggerCall("finalize", finalize(logger, status))
    /\ UNCHANGED <<torch_version, fitVars, callbackVars, trainVars, optimVars>>

\* User code reads logger.experiment.
AccessExperiment ==
    /\ logger.ops < MaxLoggerOps
    /\ LoggerCall("experiment", experiment(logger))
    /\ UNCHANGED <<torch_version, fitVars, callbackVars, trainVars, optimVars>>

\* ------------------------------------------------------------ the training loop
\* A script constructs a Trainer, fits a model and may be interrupted from the
\* keyboard; afterwards it may save the trainer's state with hpc_save and fit
\* a fresh model with a second Trainer that restores it.
MaxEpochs == 2
MaxTrainBatches == 3
MaxChecks == 5
MaxResumes == 1
MaxSteps == 3

\* The largest accumulation factor and the largest monitored metric tried.
MaxFactor == 3
MaxMetric == 2

\* EarlyStopping(patience=3), the callback the Trainer creates by default.
Patience == 3

\* Percentages are held in hundredths: train_percent_check=0.25 is 25.
Percents == {0, 25, 50, 100}
Whole == 100

\* The callbacks registered on the trainer that is fitted.
FitCallbacks == <<"cb_a", "cb_b">>

\* accumulate_grad_batches: an int (mapping empty) or a dict from epoch to
\* factor (scalar 0), the dict held as a set of <<epoch, factor>> pairs.
AccumulateInt(n) == [scalar |-> n, mapping |-> {}]
AccumulateDict(pairs) == [scalar |-> 0, mapping |-> pairs]

\* row_log_interval as the constructor defaults it.
RowLogInterval == 10

\* Trainer(...) with the arguments the script leaves at a (small) default.
DefaultArgs ==
    [max_epochs |-> MaxEpochs, max_nb_epochs |-> <<>>,
     min_epochs |-> 1, max_steps |-> <<>>, min_steps |-> <<>>,
     num_sanity_val_steps |-> 1, nb_sanity_val_steps |-> <<>>,
     fast_dev_run |-> FALSE,
     accumulate_grad_batches |-> AccumulateInt(1),
     train_percent_check |-> Whole, val_percent_check |-> Whole,
     val_check_interval |-> Whole,
     early_stop_callback |-> FALSE,
     logger |-> <<"tensorboard">>, row_log_interval |-> RowLogInterval,
     add_row_log_interval |-> <<>>,
     num_nodes |-> 1, nb_gpu_nodes |-> <<>>,
     gradient_clip_val |-> 0, gradient_clip |-> <<>>,
     min_nb_epochs |-> <<>>,
     num_tpu_cores |-> 0, precision |-> 32, use_amp |-> <<>>,
     progress_bar_refresh_rate |-> 1, show_progress_bar |-> <<>>]

\* What the fit runs on: the natural lengths of the loaders, the model and
\* whether it has an hparams attribute, and whether the user presses Ctrl+C
\* during the run.
DefaultTrainEnv ==
    [train_len |-> 2, val_len |-> 1, model |-> FullModel, hparams |-> TRUE,
     ctrl_c |-> FALSE, resumes |-> FALSE]

\* An optional integer argument: None or a value.
Optional(S) == {<<>>} \cup {<<v>> : v \in S}

\* The monitored metric before any check: worse than every value (mode min).
Inf == MaxMetric + 1

\* The object before __init__ has assigned anything.
BlankTrainer ==
    [pc |-> "unborn", generation |-> 0,
     max_epochs |-> 0, min_epochs |-> 0, max_steps |-> <<>>, min_steps |-> <<>>,
     num_sanity_val_steps |-> 0, fast_dev_run |-> FALSE,
     schedule |-> {}, train_percent_check |-> 0, val_percent_check |-> 0,
     val_check_interval |-> 0, enable_early_stop |-> FALSE,
     interrupted |-> FALSE, global_step |-> 0, current_epoch |-> 0,
     disable_validation |-> FALSE, accumulate_grad_batches |-> 1,
     num_training_batches |-> 0, num_val_batches |-> 0, val_check_batch |-> 1,
     batch_idx |-> 0, grads |-> 0, optimizer_state |-> 0, scheduler_state |-> 0,
     wait |-> 0, best |-> Inf, should_stop |-> FALSE,
     next_epoch |-> 0, epochs_run |-> 0, epoch_batches |-> 0, epoch_steps |-> 0,
     train_batches |-> 0, val_batches |-> 0, checks |-> 0, last_improved |-> 0,
     stopped_check |-> 0, restored |-> <<>>, epoch_at_train_start |-> <<>>,
     signal_pc |-> "", caught_pc |-> "", train_end |-> <<>>, result |-> <<>>,
     logger |-> <<>>, row_log_interval |-> 0,
     num_nodes |-> 0, gradient_clip_val |-> 0, num_tpu_cores |-> 0,
     precision |-> 0, warnings |-> <<>>, error |-> "",
     progress_bar_refresh_rate |-> 0, amp_request |-> <<>>]

\* warnings.warn(..., DeprecationWarning): the message starts with kind
\* ("Argument" in the constructor, "Attribute" in a property) and names name.
Warn(t, kind, name) ==
    [t EXCEPT !.warnings = Append(@, [kind |-> kind, name |-> name])]

\* A gradient_clip setter that warns and assigns nothing.
set_gradient_clip_nowhere(t, gradient_clip) == Warn(t, "Attribute", "gradient_clip")

\* The setters of the deprecated attributes: each warns and writes the
\* attribute that replaced it.
set_num_gpu_nodes(t, num_nodes) ==
    [Warn(t, "Attribute", "num_gpu_nodes") EXCEPT !.num_nodes = num_nodes]

set_gradient_clip(t, gradient_clip) ==
    [Warn(t, "Attribute", "gradient_clip") EXCEPT !.gradient_clip_val = gradient_clip]

set_max_nb_epochs(t, max_epochs) ==
    [Warn(t, "Attribute", "max_nb_epochs") EXCEPT !.max_epochs = max_epochs]

set_min_nb_epochs(t, min_epochs) ==
    [Warn(t, "Attribute", "min_nb_epochs") EXCEPT !.min_epochs = min_epochs]

set_nb_sanity_val_steps(t, nb) ==
    [Warn(t, "Attribute", "nb_sanity_val_steps") EXCEPT !.num_sanity_val_steps = nb]

\* The show_progress_bar setter: it warns, and that is all it does.
set_show_progress_bar(t, tf) == Warn(t, "Argument", "show_progress_bar")

\* The show_progress_bar getter.
show_progress_bar(t) == t.progress_bar_refresh_rate >= 1

\* The getters of the deprecated attributes: each returns the attribute that
\* replaced it.
deprecated_attribute(t, name) ==
    CASE name \in {"nb_gpu_nodes", "num_gpu_nodes"} -> t.num_nodes
      [] name = "gradient_clip" -> t.gradient_clip_val
      [] name = "max_nb_epochs" -> t.max_epochs
      [] name = "min_nb_epochs" -> t.min_epochs
      [] name = "nb_sanity_val_steps" -> t.num_sanity_val_steps

\* An assertion on the precision that lets every value through.
PrecisionUnchecked(precision) == TRUE

\* assert self.precision in (16, 32)
PrecisionSupported(precision) == precision \in {16, 32}

\* A fast_dev_run branch that forgets the sanity check.
fast_dev_run_keeps_sanity(t) ==
    IF t.fast_dev_run THEN [t EXCEPT !.max_epochs = 1] ELSE t

\* A fast_dev_run branch that leaves max_epochs alone.
fast_dev_run_keeps_epochs(t) ==
    IF t.fast_dev_run THEN [t EXCEPT !.num_sanity_val_steps = 0] ELSE t

\* if self.fast_dev_run: no sanity check, and a single epoch.
fast_dev_run_overrides(t) ==
    IF t.fast_dev_run
    THEN [t EXCEPT !.num_sanity_val_steps = 0, !.max_epochs = 1]
    ELSE t

\* A training state that starts out interrupted.
init_training_state_interrupted(t) ==
    [t EXCEPT !.disable_validation = FALSE, !.global_step = 0,
              !.current_epoch = 0, !.interrupted = TRUE]

\* The training state the constructor sets: validation on, no progress, not
\* interrupted.
init_training_state(t) ==
    [t EXCEPT !.disable_validation = FALSE, !.global_step = 0,
              !.current_epoch = 0, !.interrupted = FALSE]

\* configure_accumulated_gradients: an int n is the schedule {1: n}, a dict
\* is the schedule itself.
configure_accumulated_gradients(acc) ==
    IF acc.scalar > 0 THEN {<<1, acc.scalar>>} ELSE acc.mapping

\* A logger the script passes, as the tests' CustomLogger records its calls.
CustomLogger(name) ==
    [name |-> name, hparams_logged |-> <<>>, metrics_logged |-> FALSE,
     finalized_status |-> <<>>]

\* configure_logger: logger=False is no logger, one logger is itself, several
\* loggers are a collection that passes every call on to each member.
configure_logger(given) == [i \in DOMAIN given |-> CustomLogger(given[i])]

\* What the constructor hands to init_amp: True when the precision is 16 and
\* no TPU is asked for, else the use_amp argument as it was passed.
AmpRequest(t, use_amp) ==
    IF t.precision = 16 /\ t.num_tpu_cores = 0 THEN <<TRUE>> ELSE use_amp

\* Trainer.__init__: the statements that transfer the arguments and their
\* deprecated aliases, check num_tpu_cores, build the epoch and step limits,
\* the fast_dev_run overrides, the training state, the logger, the
\* accumulation schedule, the logging cadence, the amount of data to use and
\* the precision, in the order the constructor runs them.  A failed assertion
\* ends the construction with the attributes assigned so far.
TrainerFields(a) ==
    LET n1 == [BlankTrainer EXCEPT !.num_nodes = a.num_nodes]
        n2 == IF a.nb_gpu_nodes # <<>>
              THEN set_num_gpu_nodes(Warn(n1, "Argument", "nb_gpu_nodes"),
                                     a.nb_gpu_nodes[1])
              ELSE n1
        g1 == [n2 EXCEPT !.gradient_clip_val = a.gradient_clip_val]
        g2 == IF a.gradient_clip # <<>>
              THEN set_gradient_clip(Warn(g1, "Argument", "gradient_clip"),
                                     a.gradient_clip[1])
              ELSE g1
        c1 == [g2 EXCEPT !.progress_bar_refresh_rate = a.progress_bar_refresh_rate,
                         !.num_tpu_cores = a.num_tpu_cores]
        t1 == [c1 EXCEPT !.max_epochs = a.max_epochs]
        t2 == IF a.max_nb_epochs # <<>>
              THEN set_max_nb_epochs(Warn(t1, "Argument", "max_nb_epochs"),
                                     a.max_nb_epochs[1])
              ELSE t1
        m1 == [t2 EXCEPT !.min_epochs = a.min_epochs]
        m2 == IF a.min_nb_epochs # <<>>
              THEN set_min_nb_epochs(Warn(m1, "Argument", "min_nb_epochs"),
                                     a.min_nb_epochs[1])
              ELSE m1
        t3 == [m2 EXCEPT !.max_steps = a.max_steps,
                         !.min_steps = a.min_steps,
                         !.num_sanity_val_steps = a.num_sanity_val_steps]
        t4 == IF a.nb_sanity_val_steps # <<>>
              THEN set_nb_sanity_val_steps(Warn(t3, "Argument", "nb_sanity_val_steps"),
                                           a.nb_sanity_val_steps[1])
              ELSE t3
        t5 == fast_dev_run_overrides([t4 EXCEPT !.fast_dev_run = a.fast_dev_run])
        b1 == IF a.show_progress_bar # <<>>
              THEN set_show_progress_bar(t5, a.show_progress_bar[1])
              ELSE t5
        t6 == [init_training_state(b1) EXCEPT
                   !.logger = configure_logger(a.logger),
                   !.enable_early_stop = a.early_stop_callback,
                   !.schedule = configure_accumulated_gradients(a.accumulate_grad_batches),
                   !.val_check_interval = a.val_check_interval]
        r1 == IF a.add_row_log_interval # <<>>
              THEN Warn(t6, "Argument", "add_row_log_interval") ELSE t6
        r2 == [r1 EXCEPT !.row_log_interval =
                   IF a.add_row_log_interval # <<>> /\ a.row_log_interval = 0
                   THEN a.add_row_log_interval[1] ELSE a.row_log_interval,
                         !.train_percent_check = a.train_percent_check,
                         !.val_percent_check = a.val_percent_check,
                         !.precision = a.precision]
        p1 == IF a.use_amp # <<>>
              THEN [Warn(r2, "Argument", "use_amp") EXCEPT
                       !.precision = IF a.use_amp[1] THEN 16 ELSE 32]
              ELSE r2
    IN  IF c1.num_tpu_cores \notin {0} \cup TpuCores
        THEN [c1 EXCEPT !.pc = "failed", !.error = "num_tpu_cores can only be 1 or 8"]
        ELSE IF ~PrecisionSupported(p1.precision)
        THEN [p1 EXCEPT !.pc = "failed",
                        !.error = "only 32 or 16 bit precision supported"]
        ELSE [p1 EXCEPT !.pc = "built", !.amp_request = AmpRequest(p1, a.use_amp)]

\* A percent check that only takes the floor.
TruncatedFloor(p, len) == (p * len) \div Whole

\* The percent-check policy: the batches of a loader of natural length len
\* that are used at percent check p (in hundredths).
TruncatedBatches(p, len) ==
    IF p = 0 THEN 0 ELSE Max(1, (p * len) \div Whole)

\* A schedule lookup that takes the smallest key reached, not the largest.
FactorAtSmallestKey(schedule, epoch) ==
    LET reached == {q \in schedule : q[1] <= epoch}
    IN  IF reached = {} THEN 1
        ELSE (CHOOSE q \in reached : \A r \in reached : q[1] <= r[1])[2]

\* The accumulation policy: the factor of an epoch (epochs counted from 1, as
\* the documentation counts them) is the value at the largest key reached.
Factor(schedule, epoch) ==
    LET reached == {q \in schedule : q[1] <= epoch}
    IN  IF reached = {} THEN 1
        ELSE (CHOOSE q \in reached : \A r \in reached : r[1] <= q[1])[2]

\* A fast_dev_run that still runs the whole training loader.
WholeLoaderInFastDevRun(t, len) == TruncatedBatches(t.train_percent_check, len)

\* The batches of one training epoch and of one validation pass.
NumTrainingBatches(t, len) ==
    IF t.fast_dev_run THEN 1 ELSE TruncatedBatches(t.train_percent_check, len)

NumValBatches(t, len) ==
    IF len = 0 THEN 0
    ELSE IF t.fast_dev_run THEN 1 ELSE TruncatedBatches(t.val_percent_check, len)

\* The natural length of the validation loader: a model that defines no
\* val_dataloader has no validation batch at all.
ValLoaderLength(e) == IF is_overriden("val_dataloader", e.model) THEN e.val_len ELSE 0

\* val_check_interval as a fraction of the epoch: the batches between two
\* validation passes.
ValCheckBatch(t) == Max(1, (t.num_training_batches * t.val_check_interval) \div Whole)

\* A step limit that is never reached.
MaxStepsIgnored(t) == FALSE

\* max_steps is set and the global step has reached it.
MaxStepsReached(t) == t.max_steps # <<>> /\ t.global_step >= t.max_steps[1]

\* min_epochs and min_steps: training is forced to go on until both are met.
MetMinimums(t) ==
    /\ t.current_epoch + 1 >= t.min_epochs
    /\ t.min_steps = <<>> \/ t.global_step >= t.min_steps[1]

\* An early stopping that needs one check more than its patience.
EarlyStopOneLate(t, current) ==
    IF current < t.best
    THEN [t EXCEPT !.best = current, !.wait = 0, !.last_improved = t.checks]
    ELSE LET stop == t.wait + 1 > Patience /\ MetMinimums(t)
         IN  [t EXCEPT !.wait = @ + 1, !.should_stop = stop,
                       !.stopped_check = IF stop THEN t.checks ELSE @]

\* EarlyStopping's check after a validation pass (mode min): an improvement
\* resets the wait; otherwise the wait grows and training is told to stop once
\* it reaches the patience.
EarlyStopCheck(t, current) ==
    IF current < t.best
    THEN [t EXCEPT !.best = current, !.wait = 0, !.last_improved = t.checks]
    ELSE LET stop == t.wait + 1 >= Patience /\ MetMinimums(t)
         IN  [t EXCEPT !.wait = @ + 1, !.should_stop = stop,
                       !.stopped_check = IF stop THEN t.checks ELSE @]

\* A save that records the epoch the trainer was in.
dump_same_epoch(t) ==
    [epoch |-> t.current_epoch, global_step |-> t.global_step,
     optimizer_states |-> t.optimizer_state, lr_schedulers |-> t.scheduler_state,
     saved_by |-> [current_epoch |-> t.current_epoch, global_step |-> t.global_step,
                   optimizer_state |-> t.optimizer_state,
                   scheduler_state |-> t.scheduler_state]]

\* The checkpoint record hpc_save writes: the epoch after the one the trainer
\* finished, the global step, and the optimizer and scheduler states
\* (saved_by remembers the trainer's counters at the save, for the properties).
dump_checkpoint(t) ==
    [epoch |-> t.current_epoch + 1, global_step |-> t.global_step,
     optimizer_states |-> t.optimizer_state, lr_schedulers |-> t.scheduler_state,
     saved_by |-> [current_epoch |-> t.current_epoch, global_step |-> t.global_step,
                   optimizer_state |-> t.optimizer_state,
                   scheduler_state |-> t.scheduler_state]]

\* A restore that loads the states but not the progress counters.
restore_without_counters(t, ckpt) ==
    IF ckpt = <<>> THEN t
    ELSE [t EXCEPT !.optimizer_state = ckpt[1].optimizer_states,
                   !.scheduler_state = ckpt[1].lr_schedulers,
                   !.restored = ckpt]

\* restore_weights: when the save location holds a checkpoint, the trainer's
\* progress counters and the optimizer and scheduler states are loaded from it.
restore_weights(t, ckpt) ==
    IF ckpt = <<>> THEN t
    ELSE [t EXCEPT !.current_epoch = ckpt[1].epoch,
                   !.global_step = ckpt[1].global_step,
                   !.optimizer_state = ckpt[1].optimizer_states,
                   !.scheduler_state = ckpt[1].lr_schedulers,
                   !.restored = ckpt]

\* Where the loop goes after a batch (and its validation pass, if any): out
\* of the epoch when training was told to stop or the step limit is reached.
AfterBatch(t) ==
    IF t.should_stop \/ MaxStepsReached(t) THEN "epoch_end" ELSE "batch"

\* A loop that handles the interrupt like a failure: no flag, no teardown.
CatchAsFailure(t, at) == [t EXCEPT !.caught_pc = at, !.pc = "done"]

\* except KeyboardInterrupt: the flag is set and the teardown still runs.
Catch(t, at) == [t EXCEPT !.interrupted = TRUE, !.caught_pc = at, !.pc = "teardown"]

\* A pretrain routine that never logs the hyperparameters.
PretrainLoggingWithoutHparams(t, has_hparams) == t

\* run_pretrain_routine, "log hyper-parameters": when the Trainer has a
\* logger and the model has an hparams attribute, the logger is given them.
PretrainLogging(t, has_hparams) ==
    IF has_hparams
    THEN [t EXCEPT !.logger =
             [i \in DOMAIN t.logger |-> [t.logger[i] EXCEPT !.hparams_logged = <<"hparams">>]]]
    ELSE t

\* The metrics of a training batch go to the logger when the batch index is
\* a multiple of row_log_interval.
LogTrainingMetrics(t) ==
    IF t.batch_idx % t.row_log_interval = 0
    THEN [t EXCEPT !.logger =
             [i \in DOMAIN t.logger |-> [t.logger[i] EXCEPT !.metrics_logged = TRUE]]]
    ELSE t

\* run_training_teardown: the logger is finalized with "success".
FinalizeLogger(t) ==
    [t EXCEPT !.logger =
        [i \in DOMAIN t.logger |-> [t.logger[i] EXCEPT !.finalized_status = <<"success">>]]]

\* Trainer(**kwargs).
TrainerInit ==
    /\ loop.pc = "unborn"
    /\ loop' = [TrainerFields(kwargs) EXCEPT !.generation = loop.generation]
    /\ UNCHANGED <<kwargs, tenv, sigint, epoch_log, checkpoint>>
    /\ UNCHANGED <<fitVars, callbackVars, loggerVars, optimVars>>

\* A routine that goes to the sanity check without restoring anything.
PretrainWithoutRestore ==
    /\ loop.pc = "built"
    /\ LET t0 == PretrainLogging(loop, tenv.hparams)
           t2 == [t0 EXCEPT !.disable_validation = DisableValidation(t0, tenv.model)]
           sanity == IF RunsSanityCheck(t2, tenv.model)
                     THEN EvaluatedBatches(ValLoaderLength(tenv), t2.num_sanity_val_steps)
                     ELSE 0
       IN  loop' = [t2 EXCEPT !.val_batches = sanity, !.pc = "train"]
    /\ UNCHANGED <<kwargs, tenv, sigint, epoch_log, checkpoint>>
    /\ UNCHANGED <<fitVars, callbackVars, loggerVars, optimVars>>

\* fit, up to the training loop: the hyperparameters are logged, the weights
\* are restored, validation is switched on or off, and the sanity check runs
\* its validation batches.
Pretrain ==
    /\ loop.pc = "built"
    /\ LET t0 == PretrainLogging(loop, tenv.hparams)
           t1 == restore_weights(t0, checkpoint)
           t2 == [t1 EXCEPT !.disable_validation = DisableValidation(t1, tenv.model)]
           sanity == IF RunsSanityCheck(t2, tenv.model)
                     THEN EvaluatedBatches(ValLoaderLength(tenv), t2.num_sanity_val_steps)
                     ELSE 0
       IN  loop' = [t2 EXCEPT !.val_batches = sanity, !.pc = "train"]
    /\ UNCHANGED <<kwargs, tenv, sigint, epoch_log, checkpoint>>
    /\ UNCHANGED <<fitVars, callbackVars, loggerVars, optimVars>>

\* train(), before the first epoch: the loaders are measured, on_train_start
\* fires and the early-stop callback starts afresh.
TrainStart ==
    /\ loop.pc = "train"
    /\ LET t1 == [loop EXCEPT
                    !.num_training_batches = NumTrainingBatches(loop, tenv.train_len),
                    !.num_val_batches = NumValBatches(loop, ValLoaderLength(tenv))]
       IN  loop' = [t1 EXCEPT !.val_check_batch = ValCheckBatch(t1),
                              !.epoch_at_train_start = <<loop.current_epoch>>,
                              !.next_epoch = loop.current_epoch,
                              !.wait = 0, !.best = Inf,
                              !.pc = "epoch"]
    /\ UNCHANGED <<kwargs, tenv, sigint, epoch_log, checkpoint>>
    /\ UNCHANGED <<fitVars, callbackVars, loggerVars, optimVars>>

\* The epoch boundary: a pending interrupt is caught; the loop ends when
\* max_epochs epochs are done, training was told to stop or the step limit is
\* reached; else the next epoch starts with the factor of its number.
EpochStart ==
    /\ loop.pc = "epoch"
    /\ IF sigint = "pending"
       THEN /\ loop' = Catch(loop, "epoch")
            /\ sigint' = "caught"
       ELSE /\ sigint' = sigint
            /\ IF \/ loop.next_epoch >= loop.max_epochs
                  \/ loop.should_stop
                  \/ MaxStepsReached(loop)
               THEN loop' = [loop EXCEPT !.pc = "teardown"]
               ELSE loop' = [loop EXCEPT
                               !.current_epoch = loop.next_epoch,
                               !.next_epoch = @ + 1,
                               !.accumulate_grad_batches =
                                   Factor(loop.schedule, loop.next_epoch + 1),
                               !.batch_idx = 0, !.grads = 0,
                               !.epoch_batches = 0, !.epoch_steps = 0,
                               !.pc = "batch"]
    /\ UNCHANGED <<kwargs, tenv, epoch_log, checkpoint>>
    /\ UNCHANGED <<fitVars, callbackVars, loggerVars, optimVars>>

\* The batch boundary: a pending interrupt is caught; the epoch ends when its
\* batches are used up; else the next batch is fetched.
BatchStart ==
    /\ loop.pc = "batch"
    /\ IF sigint = "pending"
       THEN /\ loop' = Catch(loop, "batch")
            /\ sigint' = "caught"
       ELSE /\ sigint' = sigint
            /\ loop' = [loop EXCEPT !.pc =
                           IF loop.batch_idx >= loop.num_training_batches
                           THEN "epoch_end" ELSE "step"]
    /\ UNCHANGED <<kwargs, tenv, epoch_log, checkpoint>>
    /\ UNCHANGED <<fitVars, callbackVars, loggerVars, optimVars>>

\* One training batch: forward and backward; the optimizer steps when the
\* factor's worth of batches is accumulated or the epoch has no batch left.
TrainingStep ==
    /\ loop.pc = "step"
    /\ LET last == loop.batch_idx + 1 = loop.num_training_batches
           stepping == loop.grads + 1 >= loop.accumulate_grad_batches \/ last
           inc == IF stepping THEN 1 ELSE 0
           t1 == [LogTrainingMetrics(loop) EXCEPT
                              !.batch_idx = @ + 1,
                              !.epoch_batches = @ + 1,
                              !.train_batches = @ + 1,
                              !.grads = IF stepping THEN 0 ELSE @ + 1,
                              !.global_step = @ + inc,
                              !.epoch_steps = @ + inc,
                              !.optimizer_state = @ + inc]
           validates == ~t1.disable_validation
                        /\ t1.batch_idx % t1.val_check_batch = 0
       IN  loop' = [t1 EXCEPT !.pc = IF validates THEN "validate" ELSE AfterBatch(t1)]
    /\ UNCHANGED <<kwargs, tenv, sigint, epoch_log, checkpoint>>
    /\ UNCHANGED <<fitVars, callbackVars, loggerVars, optimVars>>

\* One validation pass, and the early-stop check on the metric it produced.
Validate(metric) ==
    /\ loop.pc = "validate"
    /\ loop.enable_early_stop \/ metric = 0
    /\ LET t1 == [loop EXCEPT !.val_batches = @ + loop.num_val_batches,
                              !.checks = @ + 1]
           t2 == IF loop.enable_early_stop THEN EarlyStopCheck(t1, metric) ELSE t1
       IN  loop' = [t2 EXCEPT !.pc = AfterBatch(t2)]
    /\ UNCHANGED <<kwargs, tenv, sigint, epoch_log, checkpoint>>
    /\ UNCHANGED <<fitVars, callbackVars, loggerVars, optimVars>>

\* The end of an epoch: the epoch schedulers step.
EpochEnd ==
    /\ loop.pc = "epoch_end"
    /\ epoch_log' = Append(epoch_log,
                           [epoch |-> loop.current_epoch + 1,
                            batches |-> loop.epoch_batches,
                            scheduled |-> loop.num_training_batches,
                            steps |-> loop.epoch_steps,
                            factor |-> loop.accumulate_grad_batches])
    /\ loop' = [loop EXCEPT !.epochs_run = @ + 1,
                            !.scheduler_state = @ + 1,
                            !.pc = "epoch"]
    /\ UNCHANGED <<kwargs, tenv, sigint, checkpoint>>
    /\ UNCHANGED <<fitVars, callbackVars, loggerVars, optimVars>>

\* run_training_teardown and the return of fit: on_train_end is dispatched
\* and the logger is finalized.
Teardown ==
    /\ loop.pc = "teardown"
    /\ loop' = [FinalizeLogger(loop) EXCEPT
                            !.train_end = Dispatch(FitCallbacks, "on_train_end"),
                            !.result = <<FitReturnValue>>,
                            !.pc = "done"]
    /\ UNCHANGED <<kwargs, tenv, sigint, epoch_log, checkpoint>>
    /\ UNCHANGED <<fitVars, callbackVars, loggerVars, optimVars>>

TrainingPcs == {"epoch", "batch", "step", "validate", "epoch_end"}

\* The user presses Ctrl+C while train() runs, wherever the loop is.
KeyboardInterrupt ==
    /\ tenv.ctrl_c
    /\ sigint = "none"
    /\ loop.pc \in TrainingPcs
    /\ sigint' = "pending"
    /\ loop' = [loop EXCEPT !.signal_pc = loop.pc]
    /\ UNCHANGED <<kwargs, tenv, epoch_log, checkpoint>>
    /\ UNCHANGED <<fitVars, callbackVars, loggerVars, optimVars>>

\* trainer.hpc_save(...) after fit returned.
HpcSave ==
    /\ tenv.resumes
    /\ loop.pc = "done"
    /\ checkpoint = <<>> \/ checkpoint = loop.restored
    /\ checkpoint' = <<dump_checkpoint(loop)>>
    /\ UNCHANGED <<kwargs, tenv, loop, sigint, epoch_log>>
    /\ UNCHANGED <<fitVars, callbackVars, loggerVars, optimVars>>

\* The script goes on to a new Trainer, for max_epochs epochs, that will fit
\* a fresh model against the same save location.
Resume(max_epochs) ==
    /\ loop.pc = "done"
    /\ checkpoint # <<>>
    /\ checkpoint # loop.restored
    /\ loop.generation < MaxResumes
    /\ kwargs' = [kwargs EXCEPT !.max_epochs = max_epochs]
    /\ loop' = [BlankTrainer EXCEPT !.generation = loop.generation + 1]
    /\ sigint' = "none"
    /\ epoch_log' = <<>>
    /\ UNCHANGED <<tenv, checkpoint>>
    /\ UNCHANGED <<fitVars, callbackVars, loggerVars, optimVars>>

\* The dicts a script may pass as accumulate_grad_batches: one factor per key.
ScheduleKeys == 1..(MaxEpochs + 1)
Schedules ==
    UNION {{{<<k, f[k]>> : k \in K} : f \in [K -> 1..MaxFactor]} :
              K \in SUBSET ScheduleKeys \ {{}}}

\* The runs checked, by what they vary.
InterruptScenarios ==
    {<<[DefaultArgs EXCEPT !.max_epochs = e,
                           !.accumulate_grad_batches = AccumulateInt(n)],
       [DefaultTrainEnv EXCEPT !.ctrl_c = TRUE, !.train_len = len, !.model = m]>> :
         e \in 1..MaxEpochs, n \in {1, 2}, len \in {1, 2},
         m \in {FullModel, TrainOnlyModel}}

ConstructorScenarios ==
    {<<[DefaultArgs EXCEPT !.max_epochs = e, !.max_nb_epochs = ne,
                           !.num_sanity_val_steps = s, !.nb_sanity_val_steps = ns,
                           !.fast_dev_run = f],
       DefaultTrainEnv>> :
         e \in 1..MaxEpochs, ne \in Optional(1..MaxEpochs),
         s \in 0..MaxSanity, ns \in Optional(0..MaxSanity), f \in BOOLEAN}

FastDevScenarios ==
    {<<[DefaultArgs EXCEPT !.fast_dev_run = TRUE,
                           !.max_epochs = x[1], !.min_epochs = x[2],
                           !.max_steps = x[3], !.min_steps = x[4],
                           !.train_percent_check = x[5],
                           !.val_percent_check = x[6],
                           !.val_check_interval = x[7]],
       [DefaultTrainEnv EXCEPT !.train_len = y[1], !.val_len = MaxValBatches,
                               !.model = y[2]]>> :
         x \in (1..MaxEpochs) \X {1, 2} \X Optional({2}) \X Optional({2})
               \X {0, 50, Whole} \X {0, 50, Whole} \X {50, Whole},
         y \in {1, MaxTrainBatches} \X {FullModel, TrainOnlyModel}}

AccumulateScenarios ==
    {<<[DefaultArgs EXCEPT !.accumulate_grad_batches = acc],
       [DefaultTrainEnv EXCEPT !.train_len = len, !.model = TrainOnlyModel]>> :
         acc \in {AccumulateInt(n) : n \in 1..MaxFactor}
                 \cup {AccumulateDict(d) : d \in Schedules},
         len \in 1..MaxTrainBatches}

PercentScenarios ==
    {<<[DefaultArgs EXCEPT !.max_epochs = 1, !.train_percent_check = x[1],
                           !.val_percent_check = x[2], !.fast_dev_run = x[3]],
       [DefaultTrainEnv EXCEPT !.train_len = y[1], !.val_len = y[2],
                               !.model = y[3]]>> :
         x \in Percents \X Percents \X BOOLEAN,
         y \in (1..MaxTrainBatches) \X (1..MaxValBatches)
               \X {FullModel, TrainOnlyModel}}

EarlyStopScenarios ==
    {<<[DefaultArgs EXCEPT !.early_stop_callback = TRUE, !.max_epochs = e,
                           !.min_epochs = me, !.val_check_interval = x[2]],
       [DefaultTrainEnv EXCEPT !.train_len = x[1]]>> :
         e \in {MaxChecks, MaxChecks - 2}, me \in {1, 2},
         x \in {<<1, Whole>>, <<2, 50>>}}

StepLimitScenarios ==
    {<<[DefaultArgs EXCEPT !.max_epochs = e, !.max_steps = ms,
                           !.accumulate_grad_batches = AccumulateInt(n)],
       [DefaultTrainEnv EXCEPT !.train_len = len, !.model = TrainOnlyModel]>> :
         e \in 1..MaxEpochs, ms \in Optional(1..MaxSteps), n \in {1, 2},
         len \in 1..MaxTrainBatches}

ResumeScenarios ==
    {<<[DefaultArgs EXCEPT !.max_epochs = e],
       [DefaultTrainEnv EXCEPT !.resumes = TRUE, !.ctrl_c = c,
                               !.model = TrainOnlyModel]>> :
         e \in 1..MaxEpochs, c \in BOOLEAN}

LoggerScenarios ==
    {<<[DefaultArgs EXCEPT !.max_epochs = 1, !.logger = x[1],
                           !.row_log_interval = x[2], !.train_percent_check = x[3]],
       [DefaultTrainEnv EXCEPT !.hparams = y[1], !.ctrl_c = y[2], !.train_len = y[3],
                               !.model = TrainOnlyModel]>> :
         x \in {<<>>, <<"logger1">>, <<"logger1", "logger2">>}
               \X {1, 2, RowLogInterval} \X {0, Whole},
         y \in BOOLEAN \X BOOLEAN \X (1..MaxTrainBatches)}

\* Hundredths, as for the percent checks: gradient_clip=0.5 is 50.
ClipValues == {25, 50}

\* One deprecated alias at a time, with its canonical argument at the
\* default or set; then every alias at once.
AliasScenarios ==
    LET fitted == [DefaultTrainEnv EXCEPT !.train_len = 1, !.model = TrainOnlyModel]
        base == [DefaultArgs EXCEPT !.max_epochs = 1]
    IN  {<<[base EXCEPT !.gradient_clip_val = c, !.gradient_clip = d], fitted>> :
            c \in {0} \cup ClipValues, d \in Optional(ClipValues)}
        \cup {<<[base EXCEPT !.num_nodes = c, !.nb_gpu_nodes = d], fitted>> :
            c \in {1, 2}, d \in Optional({2, 3})}
        \cup {<<[base EXCEPT !.max_epochs = c, !.max_nb_epochs = d,
                              !.fast_dev_run = f], fitted>> :
            c \in 1..MaxEpochs, d \in Optional(1..MaxEpochs), f \in BOOLEAN}
        \cup {<<[base EXCEPT !.min_epochs = c, !.min_nb_epochs = d], fitted>> :
            c \in {1, 2}, d \in Optional({1, 2})}
        \cup {<<[base EXCEPT !.num_sanity_val_steps = c, !.nb_sanity_val_steps = d,
                              !.fast_dev_run = f], fitted>> :
            c \in 0..MaxSanity, d \in Optional(0..MaxSanity), f \in BOOLEAN}
        \cup {<<[base EXCEPT !.row_log_interval = x[1], !.add_row_log_interval = x[2]],
                 fitted>> :
            x \in {y \in {0, 1, RowLogInterval} \X Optional({1, 2}) :
                      y[1] > 0 \/ y[2] # <<>>}}
        \cup {<<[base EXCEPT !.gradient_clip = <<50>>, !.nb_gpu_nodes = <<2>>,
                              !.max_nb_epochs = <<MaxEpochs>>, !.min_nb_epochs = <<2>>,
                              !.nb_sanity_val_steps = <<0>>,
                              !.add_row_log_interval = <<1>>, !.use_amp = <<FALSE>>],
                 fitted>>}

\* The num_tpu_cores, precision and use_amp arguments, accepted and refused.
PrecisionScenarios ==
    {<<[DefaultArgs EXCEPT !.max_epochs = 1, !.num_tpu_cores = c, !.precision = p,
                           !.use_amp = u],
       [DefaultTrainEnv EXCEPT !.train_len = 1, !.model = TrainOnlyModel]>> :
         c \in {0, 2} \cup TpuCores, p \in {16, 32, 64}, u \in Optional(BOOLEAN)}

\* The progress bar: its refresh rate and the deprecated switch.
ProgressBarScenarios ==
    {<<[DefaultArgs EXCEPT !.max_epochs = 1, !.progress_bar_refresh_rate = r,
                           !.show_progress_bar = s],
       [DefaultTrainEnv EXCEPT !.train_len = 1, !.model = TrainOnlyModel]>> :
         r \in {0, 1, 2}, s \in Optional(BOOLEAN)}

TrainScenarios ==
    ProgressBarScenarios \cup AliasScenarios \cup PrecisionScenarios \cup LoggerScenarios \cup InterruptScenarios \cup ConstructorScenarios \cup FastDevScenarios
    \cup AccumulateScenarios \cup PercentScenarios \cup EarlyStopScenarios
    \cup StepLimitScenarios \cup ResumeScenarios

TrainInit(s) ==
    /\ kwargs = s[1]
    /\ tenv = s[2]
    /\ loop = BlankTrainer
    /\ sigint = "none"
    /\ epoch_log = <<>>
    /\ checkpoint = <<>>

\* No trainer of this kind is constructed.
TrainIdle == TrainInit(<<DefaultArgs, DefaultTrainEnv>>)

\* --------------------------------------------------------- init_optimizers
\* The optimizers a model builds, and the scheduler StepLR(opt, 10) of each:
\* a scheduler holds the optimizer it was built for.
Optimizers == {"opt_a", "opt_b"}

StepLR(opt) == [optimizer |-> opt]

Schedulers == {StepLR(opt) : opt \in Optimizers}

Frequencies == {1, 5}

\* The sequences over S, of lo to hi elements, that name nothing twice.
ListsOf(S, lo, hi) ==
    {q \in UNION {[1..n -> S] : n \in lo..hi} :
        \A i, j \in DOMAIN q : q[i] = q[j] => i = j}

\* A dict a model returns: its optimizer, and under "lr_scheduler" and
\* "frequency" a value or nothing (<<>>).
OptimizerDicts ==
    {[optimizer |-> opt, lr_scheduler |-> sch, frequency |-> f] :
        opt \in Optimizers, sch \in {<<>>} \cup {<<StepLR(o)>> : o \in Optimizers},
        f \in {<<>>} \cup {<<n>> : n \in Frequencies}}

OwnScheduler(d) == d.lr_scheduler = <<>> \/ d.lr_scheduler = <<StepLR(d.optimizer)>>

OptimConf(kind, opts, scheds, dicts) ==
    [kind |-> kind, opts |-> opts, scheds |-> scheds, dicts |-> dicts]

\* What configure_optimizers may return: one optimizer; a tuple or a list of
\* optimizers; a tuple of two lists (optimizers, schedulers); one dict without
\* frequency; a sequence of dicts that give a frequency each or not at all.
OptimConfs ==
    {OptimConf("optimizer", <<opt>>, <<>>, <<>>) : opt \in Optimizers}
    \cup {OptimConf(kind, opts, <<>>, <<>>) :
            kind \in {"tuple", "list"},
            opts \in ListsOf(Optimizers, 1, Cardinality(Optimizers))}
    \cup {OptimConf("two_lists", opts, scheds, <<>>) :
            opts \in ListsOf(Optimizers, 1, Cardinality(Optimizers)),
            scheds \in ListsOf(Schedulers, 0, Cardinality(Optimizers))}
    \cup {OptimConf("dict", <<>>, <<>>, <<d>>) :
            d \in {e \in OptimizerDicts : OwnScheduler(e) /\ e.frequency = <<>>}}
    \cup {OptimConf("dicts", <<>>, <<>>, ds) :
            ds \in {q \in ListsOf({e \in OptimizerDicts : OwnScheduler(e)},
                                  1, Cardinality(Optimizers)) :
                      /\ \A i, j \in DOMAIN q : q[i].optimizer = q[j].optimizer => i = j
                      /\ \/ \A i \in DOMAIN q : q[i].frequency = <<>>
                         \/ \A i \in DOMAIN q : q[i].frequency # <<>>}}

\* The concatenation of the sequences of qs, in order.
RECURSIVE Concat(_)
Concat(qs) == IF qs = <<>> THEN <<>> ELSE Head(qs) \o Concat(Tail(qs))

\* configure_schedulers: each scheduler becomes a dict with the defaults.
configure_schedulers(schedulers) ==
    [i \in DOMAIN schedulers |->
        [scheduler |-> schedulers[i], interval |-> "epoch", frequency |-> 1,
         reduce_on_plateau |-> FALSE, monitor |-> "val_loss"]]

\* init_optimizers: the optimizers, the scheduler dicts and the frequencies of
\* what configure_optimizers returned; a dict without "lr_scheduler" or
\* without "frequency" contributes no entry to that list.
init_optimizers(conf) ==
    CASE conf.kind = "optimizer" -> <<conf.opts, <<>>, <<>>>>
      [] conf.kind \in {"tuple", "list"} -> <<conf.opts, <<>>, <<>>>>
      [] conf.kind = "two_lists" ->
            <<conf.opts, configure_schedulers(conf.scheds), <<>>>>
      [] conf.kind = "dict" ->
            <<<<conf.dicts[1].optimizer>>,
              configure_schedulers(conf.dicts[1].lr_scheduler), <<>>>>
      [] conf.kind = "dicts" ->
            <<[i \in DOMAIN conf.dicts |-> conf.dicts[i].optimizer],
              configure_schedulers(
                  Concat([i \in DOMAIN conf.dicts |-> conf.dicts[i].lr_scheduler])),
              Concat([i \in DOMAIN conf.dicts |-> conf.dicts[i].frequency])>>

\* The Trainer's fields after construction; conf is the return value the
\* fields were last computed from, if any.  None is written <<>>.
NewOptim ==
    [optimizers |-> <<>>, lr_schedulers |-> <<>>, optimizer_frequencies |-> <<>>,
     conf |-> <<>>]

\* model.configure_optimizers = lambda: conf
SetConfigureOptimizers(conf) ==
    /\ optim_conf' = conf
    /\ UNCHANGED optim
    /\ UNCHANGED <<fitVars, callbackVars, loggerVars, trainVars>>

\* fit on CPU that drops what init_optimizers returns.
InitOptimizersDiscarded ==
    /\ optim' = [optim EXCEPT !.conf = <<optim_conf>>]
    /\ UNCHANGED optim_conf
    /\ UNCHANGED <<fitVars, callbackVars, loggerVars, trainVars>>

\* fit on CPU that keeps the optimizers and the schedulers only.
InitOptimizersWithoutFrequencies ==
    /\ LET r == init_optimizers(optim_conf) IN
         optim' = [optimizers |-> r[1], lr_schedulers |-> r[2],
                   optimizer_frequencies |-> <<>>, conf |-> <<optim_conf>>]
    /\ UNCHANGED optim_conf
    /\ UNCHANGED <<fitVars, callbackVars, loggerVars, trainVars>>

\* fit on CPU that keeps the optimizers in reverse order.
InitOptimizersReversed ==
    /\ LET r == init_optimizers(optim_conf) IN
         optim' = [optimizers |-> [i \in DOMAIN r[1] |-> r[1][Len(r[1]) + 1 - i]],
                   lr_schedulers |-> r[2],
                   optimizer_frequencies |-> r[3], conf |-> <<optim_conf>>]
    /\ UNCHANGED optim_conf
    /\ UNCHANGED <<fitVars, callbackVars, loggerVars, trainVars>>

\* fit on CPU: the three lists init_optimizers returns become the Trainer's
\* optimizers, lr_schedulers and optimizer_frequencies, in that order.
InitOptimizers ==
    /\ LET r == init_optimizers(optim_conf) IN
         optim' = [optimizers |-> r[1], lr_schedulers |-> r[2],
                   optimizer_frequencies |-> r[3], conf |-> <<optim_conf>>]
    /\ UNCHANGED optim_conf
    /\ UNCHANGED <<fitVars, callbackVars, loggerVars, trainVars>>

OptimInit(conf) ==
    /\ optim_conf = conf
    /\ optim = NewOptim

OptimIdle == OptimInit(OptimConf("optimizer", <<"opt_a">>, <<>>, <<>>))

\* ------------------------------------------------------------- next state
\* A script that fits and tests with one trainer; no trainer is constructed
\* and no logger is called on the side.
Init ==
    /\ \E s \in Scenarios : FitInit(s)
    /\ CallbacksInit
    /\ LoggerIdle
    /\ TrainIdle
    /\ OptimIdle

Next ==
    \/ \E p \in Procs, args \in LoaderArgs : CallFit(p, args)
    \/ \E p \in Procs : CheckModel(p)
    \/ \E p \in Procs : PrepareData(p)
    \/ \E p \in Procs : FitDirectDDP(p)
    \/ \E p \in Procs : FitSpawn(p)
    \/ \E p \in Procs : FitSingleProcessGPU(p)
    \/ \E p \in Procs : FitCPU(p)
    \/ \E p \in Procs : StrategyTrain(p)
    \/ \E p \in Procs : BarrierNext(p)
    \/ \E p \in Procs, ok \in BOOLEAN : PretrainRun(p, ok)
    \/ \E p \in Procs : SpawnJoin(p)
    \/ \E p \in Procs : FitReturn(p)
    \/ \E p \in Procs, withModel \in BOOLEAN : TestWithFit(p, withModel)
    \/ \E p \in Procs : TestEvalOnly(p)
    \/ \E p \in Procs : TestReturn(p)

Spec == Init /\ [][Next]_vars

\* A script that constructs trainers and runs their hook dispatchers.
FitIdle == FitInit(<<DefaultConfig, DefaultEnv, FullModel>>)

InitCallbacks ==
    /\ FitIdle
    /\ CallbacksInit
    /\ LoggerIdle
    /\ TrainIdle
    /\ OptimIdle

NextCallbacks ==
    \/ \E t \in TrainerIds, given \in BOOLEAN, cbs \in CallbackLists, arg \in InitArgs :
          TrainerInitStart(t, given, cbs, arg)
    \/ \E t \in TrainerIds : TrainerInitBuild(t)
    \/ \E t \in TrainerIds : TrainerInitEnd(t)
    \/ \E t \in TrainerIds, h \in RunHooks : RunHook(t, h)

SpecCallbacks == InitCallbacks /\ [][NextCallbacks]_vars

\* A script that constructs trainers, adds callbacks to the callbacks list of
\* a constructed trainer, and runs a hook dispatcher.
NextRegistries ==
    \/ \E t \in TrainerIds, given \in BOOLEAN, cbs \in CallbackLists :
          TrainerInitStart(t, given, cbs, <<0, 32>>)
    \/ \E t \in TrainerIds : TrainerInitBuild(t)
    \/ \E t \in TrainerIds : TrainerInitEnd(t)
    \/ \E t \in TrainerIds : RunHook(t, "on_train_start")
    \/ \E t \in TrainerIds, cb \in CallbackIds : AppendCallback(t, cb)

SpecRegistries == InitCallbacks /\ [][NextRegistries]_vars

\* A process of a run calls its logger.
InitLoggers ==
    /\ FitIdle
    /\ CallbacksInit
    /\ LoggersInit
    /\ TrainIdle
    /\ OptimIdle

NextLoggers ==
    \/ \E params \in ParamSets : LogHyperparams(params)
    \/ \E metrics \in MetricLists : LogMetrics(metrics)
    \/ Save
    \/ \E status \in {"success", "failed"} : Finalize(status)
    \/ AccessExperiment

SpecLoggers == InitLoggers /\ [][NextLoggers]_vars

\* A script that constructs a Trainer and fits, is possibly interrupted, and
\* possibly saves and resumes.
InitTrain ==
    /\ FitIdle
    /\ CallbacksInit
    /\ LoggerIdle
    /\ \E s \in TrainScenarios : TrainInit(s)
    /\ OptimIdle

NextTrain ==
    \/ TrainerInit
    \/ Pretrain
    \/ TrainStart
    \/ EpochStart
    \/ BatchStart
    \/ TrainingStep
    \/ \E metric \in 0..MaxMetric : Validate(metric)
    \/ EpochEnd
    \/ Teardown
    \/ KeyboardInterrupt
    \/ HpcSave
    \/ \E max_epochs \in 1..(MaxEpochs + 1) : Resume(max_epochs)

SpecTrain == InitTrain /\ [][NextTrain]_vars

\* The same script on a machine that keeps running it.
FairSpecTrain == SpecTrain /\ WF_vars(NextTrain)

\* A script that sets the model's configure_optimizers and fits on CPU.
InitOptim ==
    /\ FitIdle
    /\ CallbacksInit
    /\ LoggerIdle
    /\ TrainIdle
    /\ \E conf \in OptimConfs : OptimInit(conf)

NextOptim ==
    \/ \E conf \in OptimConfs : SetConfigureOptimizers(conf)
    \/ InitOptimizers

SpecOptim == InitOptim /\ [][NextOptim]_vars

\* ------------------------------------------------------------ properties
Has(seq, e) == \E i \in DOMAIN seq : seq[i] = e

\* The index of the first occurrence of e in seq (0 when there is none).
Pos(seq, e) == IF Has(seq, e) THEN CHOOSE i \in DOMAIN seq :
                                       seq[i] = e /\ \A j \in 1..(i - 1) : seq[j] # e
               ELSE 0

Exceptions == {"MisconfigurationException", "KeyError", "RuntimeFailure", "Exception"}

\* The model lacks one of the three methods every fit needs.
MissingRequired(m) ==
    \/ ~is_overriden("training_step", m)
    \/ ~is_overriden("train_dataloader", m)
    \/ ~is_overriden("configure_optimizers", m)

\* A loader/step pair of which exactly one half is present.
HalfPresent(m) ==
    \/ is_overriden("val_dataloader", m) # is_overriden("validation_step", m)
    \/ is_overriden("test_dataloader", m) # is_overriden("test_step", m)

\* The call of p ended with the exception check_model_configuration raises.
RaisedAtCheck(p) ==
    /\ outcome[p] = "MisconfigurationException"
    /\ Has(calls[p], "check_model_configuration")
    /\ ~Has(calls[p], "prepare_data")

\* C1: whatever fit returns is 1, in every strategy branch; a call that ended
\* with an exception returned nothing; and fit returned only if the model
\* passed the contract check, amp was not requested on CPU and no launched
\* worker failed.
C1_FitReturnsOne ==
    \A p \in Procs :
        /\ fit_result[p] # <<>> => fit_result[p] = <<1>>
        /\ outcome[p] \in Exceptions /\ api[p] = "fit" => fit_result[p] = <<>>
        /\ fit_result[p] # <<>> =>
              /\ ~MissingRequired(model) /\ ~HalfPresent(model)
              /\ ~(Route(config) = "cpu" /\ config.use_amp)
              /\ strategy[p] \in {"ddp2", "ddp", "dp", "single_gpu", "tpu", "cpu"}
              /\ Has(calls[p], "spawn") => \A w \in Workers : outcome[w] = "returned"

\* fit has returned from a spawning branch whose workers all ended well.
C1_Witness ==
    \E p \in Procs :
        /\ fit_result[p] = <<1>> /\ api[p] = "fit" /\ outcome[p] = "returned"
        /\ strategy[p] = "ddp" /\ Cardinality(Workers) = MaxGpus

\* C2: a fit on a model that lacks training_step, train_dataloader or
\* configure_optimizers ends with MisconfigurationException, and neither
\* prepare_data nor any strategy is reached in that call.
C2_RequiredMethods ==
    \A p \in Procs :
        Has(calls[p], "fit") /\ MissingRequired(model) =>
            /\ ~Has(calls[p], "prepare_data")
            /\ strategy[p] = "none"
            /\ \A e \in {"spawn", "ddp_train", "dp_train", "single_gpu_train",
                         "run_pretrain_routine", "init_optimizers"} : ~Has(calls[p], e)
            /\ fit_result[p] = <<>>
            /\ pc[p] \in {"check", "idle"}
            /\ pc[p] = "idle" => RaisedAtCheck(p)

\* A fit was refused because the model has no configure_optimizers.
C2_Witness ==
    \E p \in Procs :
        /\ RaisedAtCheck(p) /\ error[p] = "no configure_optimizers"
        /\ is_overriden("training_step", model)
        /\ is_overriden("train_dataloader", model)

\* C3: on a model with the three required methods the check raises exactly
\* when a loader/step pair is half present; with both halves or neither it
\* raises nothing and at most warns about a missing *_epoch_end.
C3_PairCheck ==
    \A p \in Procs :
        Has(calls[p], "check_model_configuration") /\ ~MissingRequired(model) =>
            /\ HalfPresent(model) <=> RaisedAtCheck(p)
            /\ ~HalfPresent(model) =>
                  /\ Has(calls[p], "warn: no validation_epoch_end") <=>
                        /\ is_overriden("val_dataloader", model)
                        /\ ~is_overriden("validation_epoch_end", model)
                  /\ Has(calls[p], "warn: no test_epoch_end") <=>
                        /\ is_overriden("test_dataloader", model)
                        /\ ~is_overriden("test_epoch_end", model)

\* A fit on a model with validation_step but no val_dataloader was refused.
C3_Witness ==
    \E p \in Procs :
        /\ RaisedAtCheck(p) /\ error[p] = "validation_step without val_dataloader"

\* A process that runs inside a test() call: the caller, or a worker whose
\* trainer copy carries the testing flag.
InTest(p) ==
    \/ role[p] = "caller" /\ api[p] = "test"
    \/ role[p] = "worker" /\ trainer[p].testing

\* C4: inside a test() call no process runs on_sanity_check_start, the sanity
\* check or train(); a pretrain routine that got past its rendezvous ran the
\* test-mode evaluation.
C4_TestSkipsTraining ==
    \A p \in Procs :
        InTest(p) =>
            /\ ~Has(calls[p], "on_sanity_check_start")
            /\ ~Has(calls[p], "sanity_check")
            /\ ~Has(calls[p], "train")
            /\ Has(calls[p], "restore_weights") => Has(calls[p], "run_evaluation(test_mode)")

\* test(model) went through fit and the pretrain routine and came back.
C4_Witness ==
    \E p \in Procs :
        /\ api[p] = "test" /\ outcome[p] = "returned"
        /\ Has(calls[p], "run_pretrain_routine")
        /\ Has(calls[p], "run_evaluation(test_mode)")

\* C5: in a run outside test mode the sanity check runs exactly when
\* validation is enabled and num_sanity_val_steps > 0, and then strictly
\* before train(); it evaluates at most num_sanity_val_steps batches of the
\* validation loader, and hands its callback metrics to the early-stop
\* callback exactly when early stopping is enabled.
C5_SanityCheck ==
    \A p \in Procs :
        ~InTest(p) /\ Has(calls[p], "train") =>
            /\ Has(calls[p], "sanity_check") <=>
                  ~trainer[p].disable_validation /\ config.num_sanity_val_steps > 0
            /\ Has(calls[p], "sanity_check") =>
                  /\ Pos(calls[p], "sanity_check") < Pos(calls[p], "train")
                  /\ Pos(calls[p], "on_sanity_check_start") < Pos(calls[p], "sanity_check")
                  /\ sanity_batches[p] <= config.num_sanity_val_steps
                  /\ sanity_batches[p] <= env.val_batches
            /\ ~Has(calls[p], "sanity_check") => sanity_batches[p] = 0
            /\ Has(calls[p], "early_stop_callback.check_metrics") <=>
                  Has(calls[p], "sanity_check") /\ config.enable_early_stop

\* A sanity check was cut short by num_sanity_val_steps, gave its metrics to
\* the early-stop callback, and training followed.
C5_Witness ==
    \E p \in Procs :
        /\ ~InTest(p) /\ Has(calls[p], "train") /\ Has(calls[p], "sanity_check")
        /\ sanity_batches[p] = config.num_sanity_val_steps
        /\ sanity_batches[p] < env.val_batches
        /\ Has(calls[p], "early_stop_callback.check_metrics")

\* p has left the rendezvous of the pretrain routine behind.
PastBarrier(p) == Has(calls[p], "restore_weights")

\* p has prepared its model and entered the rendezvous named b.
AtBarrier(p, b) ==
    /\ Has(calls[p], b)
    /\ Pos(calls[p], "copy_trainer_model_properties") < Pos(calls[p], b)
    /\ Pos(calls[p], "log_hyperparams") < Pos(calls[p], b)

\* C8: under ddp or ddp2 no process gets past the pretrain routine's barrier
\* (to the sanity check or to training) before every process of the run has
\* prepared its model and entered the barrier; on TPU the same holds for the
\* rendezvous named pl.Trainer.run_pretrain_routine.
C8_PretrainBarrier ==
    \A p \in Procs :
        PastBarrier(p) =>
            /\ config.use_ddp \/ config.use_ddp2 =>
                  \A q \in World(p) : AtBarrier(q, "torch_distrib.barrier")
            /\ use_tpu(config) =>
                  \A q \in World(p) :
                      AtBarrier(q, "rendezvous pl.Trainer.run_pretrain_routine")
            /\ \A b \in BarrierNames :
                  Has(calls[p], b) => Pos(calls[p], b) < Pos(calls[p], "restore_weights")

\* Several ddp workers are past the barrier.
C8_Witness ==
    \E p \in Procs :
        /\ role[p] = "worker" /\ PastBarrier(p) /\ Has(calls[p], "train")
        /\ config.use_ddp /\ ~use_tpu(config)
        /\ Cardinality(World(p)) = MaxGpus

\* C10: non-SLURM ddp spawns exactly num_gpus workers and TPU exactly
\* num_tpu_cores; each worker runs on its own copy of the trainer, so what
\* the workers set (optimizers, rank) leaves the parent's trainer untouched.
C10_SpawnCount ==
    \A p \in Procs :
        Has(calls[p], "spawn") =>
            /\ strategy[p] = "ddp" => Cardinality(Workers) = config.num_gpus
            /\ strategy[p] = "tpu" => Cardinality(Workers) = config.num_tpu_cores
            /\ strategy[p] \in {"ddp", "tpu"}
            /\ strategy[p] = "ddp" => ~config.is_slurm_managing_tasks
            /\ p \notin Workers
            /\ trainer[p].optimizers = "None" /\ trainer[p].proc_rank = 0
            /\ \A w \in Workers :
                  trainer[w].optimizers = "set" => trainer[w].proc_rank = w - 1

\* Eight TPU workers run, each with its own rank, the parent unchanged.
C10_Witness ==
    \E p \in Procs :
        /\ Has(calls[p], "spawn") /\ strategy[p] = "tpu"
        /\ Cardinality(Workers) = MaxTpuCores
        /\ \A w \in Workers : trainer[w].optimizers = "set"

\* The dispatches of the two constructor hooks made for trainer t, in order.
InitDispatches(t) ==
    SelectSeq(hook_log, LAMBDA r : r.trainer = t /\ r.hook \in InitHooks)

\* The callbacks a dispatch invoked, in the order it invoked them.
InvokedCallbacks(r) == [i \in DOMAIN r.invoked |-> r.invoked[i].callback]

\* C6: a construction that succeeds dispatches on_init_start when nothing but
\* the callback list is built, and on_init_end when everything is built; each
\* of the two reaches every registered callback once, so each callback sees
\* on_init_start once and then on_init_end once.  A construction that is under
\* way or has failed has dispatched on_init_start only.
C6_InitHooks ==
    \A t \in TrainerIds :
        LET d == InitDispatches(t)
        IN  /\ trainers[t].pc = "unborn" => d = <<>>
            /\ trainers[t].pc \in {"init_started", "built", "failed"} =>
                  /\ Len(d) = 1
                  /\ d[1].hook = "on_init_start" /\ d[1].fields = {"callbacks"}
            /\ trainers[t].pc = "constructed" =>
                  /\ Len(d) = 2
                  /\ d[1].hook = "on_init_start" /\ d[1].fields = {"callbacks"}
                  /\ d[2].hook = "on_init_end" /\ d[2].fields = AllFields
                  /\ trainers[t].fields = AllFields
                  /\ \A k \in 1..2 :
                        /\ InvokedCallbacks(d[k]) = Registered(t)
                        /\ \A i \in DOMAIN d[k].invoked :
                              d[k].invoked[i].hook = d[k].hook

\* A trainer was constructed with two different callbacks registered.
C6_Witness ==
    \E t \in TrainerIds :
        /\ trainers[t].pc = "constructed"
        /\ Len(Registered(t)) = 2 /\ Registered(t)[1] # Registered(t)[2]
        /\ Len(InitDispatches(t)) = 2

\* C7: every dispatch of every one of the twelve hooks invokes that hook on
\* each callback of the trainer's list exactly once, in list order.
C7_DispatchOrder ==
    \A k \in DOMAIN hook_log :
        LET r == hook_log[k]
        IN  /\ r.hook \in InitHooks \cup RunHooks
            /\ r.list = Registered(r.trainer)
            /\ Len(r.invoked) = Len(r.list)
            /\ \A i \in DOMAIN r.invoked :
                  /\ r.invoked[i].callback = r.list[i]
                  /\ r.invoked[i].hook = r.hook
                  /\ r.invoked[i].args[1] = "trainer"

\* A run hook was dispatched to two different callbacks.
C7_Witness ==
    \E k \in DOMAIN hook_log :
        /\ hook_log[k].hook = "on_batch_end"
        /\ Len(hook_log[k].list) = 2
        /\ hook_log[k].list[1] # hook_log[k].list[2]
        /\ Len(hook_log[k].invoked) = 2

\* C9: on a process whose rank is not zero log_hyperparams, log_metrics, save
\* and finalize do nothing, however often and in whatever order they are
\* called: nothing is written to the experiment writer, the tags stay empty,
\* no meta_tags file is written.  On rank zero save and finalize do write it.
C9_RankZeroOnly ==
    /\ logger.rank # 0 =>
          /\ logger.writes = <<>>
          /\ logger.tags = {}
          /\ logger.meta_tags = <<>>
          /\ logger.experiment # "None" => "experiment" \in logger.called
    /\ logger.rank = 0 /\ logger.called \cap {"save", "finalize"} # {} =>
          logger.meta_tags # <<>>

\* All four operations were called on a logger of non-zero rank.
C9_Witness ==
    /\ logger.rank # 0
    /\ logger.called = {"log_hyperparams", "log_metrics", "save", "finalize"}


\* C11: under ddp2, and under ddp when SLURM manages the tasks, fit spawns
\* nothing: ddp_train runs in the calling process itself, with the task
\* number read from SLURM_LOCALID; without that variable fit ends with
\* KeyError, still without a spawn.
C11_NoLocalSpawn ==
    \A p \in Procs :
        /\ strategy[p] = "ddp2" \/ (strategy[p] = "ddp" /\ config.is_slurm_managing_tasks) =>
              /\ ~Has(calls[p], "spawn")
              /\ Workers = {}
              /\ role[p] = "caller"
              /\ Has(calls[p], "ddp_train") <=> env.slurm_ntasks >= 1
              /\ Has(calls[p], "ddp_train") => trainer[p].task = <<p>>
              /\ env.slurm_ntasks = 0 => outcome[p] = "KeyError"
        /\ Has(calls[p], "spawn") =>
              strategy[p] = "tpu" \/ (strategy[p] = "ddp" /\ ~config.is_slurm_managing_tasks)

\* The second SLURM task of a SLURM-managed ddp run is inside ddp_train with
\* its own task number.
C11_Witness ==
    \E p \in Procs :
        /\ p >= 1 /\ strategy[p] = "ddp" /\ config.is_slurm_managing_tasks
        /\ Has(calls[p], "ddp_train") /\ trainer[p].task = <<p>>
        /\ trainer[p].optimizers = "set" /\ trainer[p].proc_rank = p


\* The callbacks on which a dispatch record shows hook h, in order.
InvokedFor(invoked, h) ==
    [i \in DOMAIN invoked |-> IF invoked[i].hook = h THEN invoked[i].callback ELSE ""]

\* The run is over the graceful way: the teardown dispatched on_train_end to
\* every callback and fit returned its value.
GracefulEnd ==
    /\ loop.pc = "done"
    /\ InvokedFor(loop.train_end, "on_train_end") = FitCallbacks
    /\ loop.result = <<FitReturnValue>>

C12_InterruptState ==
    /\ loop.interrupted <=> sigint = "caught"
    /\ sigint = "caught" =>
          /\ loop.caught_pc \in {"epoch", "batch"}
          /\ loop.pc \in {"teardown", "done"}
          /\ loop.signal_pc \in TrainingPcs
    /\ sigint = "pending" => loop.pc \in TrainingPcs
    /\ loop.pc = "done" => GracefulEnd

\* C12: the interrupted flag is False from the construction until a keyboard
\* interrupt is caught during training and True from then on; the interrupt
\* is caught at an epoch or batch boundary only (a step in progress ends
\* first) and stops the loop; and an interrupt that arrives during training
\* always leads to the graceful end: flag set, on_train_end dispatched to every
\* callback, fit returning normally.
C12_Interrupt ==
    /\ []C12_InterruptState
    /\ (sigint = "pending") ~> (loop.interrupted /\ GracefulEnd)

C12_Witness ==
    /\ loop.interrupted
    /\ GracefulEnd
    /\ loop.signal_pc = "step"
    /\ loop.caught_pc = "batch"
    /\ loop.batch_idx < loop.num_training_batches
    /\ loop.train_batches >= 1


\* The model handed to fit has a validation step and a validation loader.
ValidationConfigured ==
    /\ is_overriden("validation_step", tenv.model)
    /\ is_overriden("val_dataloader", tenv.model)

\* C13: a trainer built with fast_dev_run=True never runs more than one
\* training batch, one validation batch or one epoch, and a fit that is not
\* interrupted ends with exactly one training batch, one epoch, and one
\* validation batch when validation is configured (none otherwise), whatever
\* max_epochs, min_epochs, max_steps, min_steps, the percent checks and
\* val_check_interval are.
C13_FastDevRun ==
    loop.fast_dev_run =>
        /\ loop.train_batches <= 1
        /\ loop.epochs_run <= 1
        /\ loop.val_batches <= 1
        /\ loop.pc = "done" /\ ~loop.interrupted =>
              /\ loop.train_batches = 1
              /\ loop.epochs_run = 1
              /\ loop.val_batches = IF ValidationConfigured THEN 1 ELSE 0

C13_Witness ==
    /\ loop.fast_dev_run
    /\ loop.pc = "done"
    /\ kwargs.max_epochs = MaxEpochs
    /\ kwargs.max_steps = <<2>>
    /\ kwargs.min_epochs = 2
    /\ kwargs.min_steps = <<2>>
    /\ kwargs.train_percent_check = 50
    /\ kwargs.val_percent_check = 0
    /\ kwargs.val_check_interval = 50
    /\ tenv.train_len = MaxTrainBatches
    /\ ValidationConfigured
    /\ loop.train_batches = 1
    /\ loop.val_batches = 1


\* The value an attribute is given by its own argument and, when the
\* deprecated alias is passed too, by the alias, which is assigned last.
Supplied(canonical, alias) == IF alias # <<>> THEN alias[1] ELSE canonical

\* C14: once the constructor has run, a trainer built with fast_dev_run=True
\* has max_epochs = 1 and num_sanity_val_steps = 0 whatever was passed for
\* max_epochs, max_nb_epochs, num_sanity_val_steps and nb_sanity_val_steps;
\* built with fast_dev_run=False it has the values supplied for them (that of
\* the deprecated alias when the alias is passed).
C14_FastDevRunFields ==
    loop.pc \notin {"unborn", "failed"} =>
        IF kwargs.fast_dev_run
        THEN loop.max_epochs = 1 /\ loop.num_sanity_val_steps = 0
        ELSE /\ loop.max_epochs = Supplied(kwargs.max_epochs, kwargs.max_nb_epochs)
             /\ loop.num_sanity_val_steps =
                   Supplied(kwargs.num_sanity_val_steps, kwargs.nb_sanity_val_steps)

C14_Witness ==
    /\ loop.pc = "built"
    /\ kwargs.fast_dev_run
    /\ kwargs.max_epochs = MaxEpochs
    /\ kwargs.max_nb_epochs = <<MaxEpochs>>
    /\ kwargs.num_sanity_val_steps = MaxSanity
    /\ kwargs.nb_sanity_val_steps = <<1>>
    /\ loop.max_epochs = 1
    /\ loop.num_sanity_val_steps = 0


\* The trainer restored a checkpoint and has not trained on it yet.
JustRestored == loop.restored # <<>> /\ loop.pc = "train"

\* What the trainer that wrote the restored checkpoint held when it saved.
SavedBy == loop.restored[1].saved_by

C16_HpcResume ==
    /\ checkpoint # <<>> /\ loop.generation > 0 /\ loop.pc \notin {"unborn", "built"} =>
          loop.restored # <<>>
    /\ loop.generation > 0 /\ loop.epoch_at_train_start # <<>> =>
          /\ loop.restored # <<>>
          /\ loop.epoch_at_train_start[1] = SavedBy.current_epoch + 1
          /\ loop.epoch_at_train_start[1] > 0

C16_Witness ==
    /\ loop.generation = 1
    /\ loop.pc = "epoch"
    /\ loop.epoch_at_train_start = <<1>>
    /\ SavedBy.current_epoch = 0
    /\ kwargs.max_epochs = 1
    /\ loop.epochs_run = 0


\* ceil(n / f) for f >= 1.
Ceil(n, f) == (n + f - 1) \div f

\* The factor the documentation gives an epoch: the int passed, or the value
\* at the largest key of the dict that is <= the epoch, 1 when there is none.
DocumentedFactor(acc, epoch) ==
    IF acc.scalar > 0 THEN acc.scalar
    ELSE IF \A q \in acc.mapping : q[1] > epoch THEN 1
    ELSE LET k == CHOOSE k \in {q[1] : q \in acc.mapping} :
                      /\ k <= epoch
                      /\ \A q \in acc.mapping : q[1] <= epoch => q[1] <= k
         IN  (CHOOSE q \in acc.mapping : q[1] = k)[2]

DocumentedBatches(p, L) ==
    IF p = 0 THEN 0
    ELSE IF (p * L) \div Whole >= 1 THEN (p * L) \div Whole ELSE 1

\* The loaders have been measured: train() is past its first statements.
Measured == loop.pc \in TrainingPcs \cup {"teardown", "done"}

\* The validation batches of the sanity check of this fit.
SanityBatches ==
    IF ~loop.disable_validation /\ loop.num_sanity_val_steps > 0
    THEN Min(ValLoaderLength(tenv), loop.num_sanity_val_steps) ELSE 0

\* C18: without fast_dev_run, an epoch of training uses
\* max(1, floor(p * L)) batches of a loader of length L at
\* train_percent_check p > 0 and none at p = 0, and every validation pass
\* uses max(1, floor(p * L)) batches of the validation loader at
\* val_percent_check p > 0; at val_percent_check = 0 validation is disabled
\* (disable_validation is True) and no validation batch is ever run.
C18_PercentCheck ==
    ~loop.fast_dev_run =>
        /\ Measured =>
              /\ loop.num_training_batches =
                    DocumentedBatches(kwargs.train_percent_check, tenv.train_len)
              /\ loop.epoch_batches <= loop.num_training_batches
              /\ ValidationConfigured =>
                    loop.val_batches = SanityBatches + loop.checks *
                        DocumentedBatches(kwargs.val_percent_check, tenv.val_len)
        /\ \A i \in DOMAIN epoch_log :
              \/ epoch_log[i].batches =
                    DocumentedBatches(kwargs.train_percent_check, tenv.train_len)
              \/ loop.should_stop
              \/ MaxStepsReached(loop)
        /\ loop.pc \notin {"unborn", "built"} /\ kwargs.val_percent_check = 0 =>
              /\ loop.disable_validation
              /\ loop.val_batches = 0
              /\ loop.checks = 0

C18_Witness ==
    /\ ~loop.fast_dev_run
    /\ loop.pc = "done"
    /\ kwargs.train_percent_check = 25
    /\ tenv.train_len = 3
    /\ kwargs.val_percent_check = 0
    /\ ValidationConfigured
    /\ Len(epoch_log) = 1
    /\ epoch_log[1].batches = 1
    /\ loop.disable_validation


C20_Limits ==
    /\ loop.max_steps # <<>> => loop.global_step <= loop.max_steps[1]
    /\ loop.epochs_run <= loop.max_epochs
    /\ loop.pc \in {"batch", "step", "validate", "epoch_end"} =>
          loop.current_epoch < loop.max_epochs
    /\ loop.pc \in {"batch", "step"} /\ loop.max_steps # <<>> =>
          loop.global_step < loop.max_steps[1]
    /\ loop.pc = "done" /\ ~loop.interrupted /\ ~loop.should_stop =>
          \/ loop.next_epoch >= loop.max_epochs
          \/ loop.max_steps # <<>> /\ loop.global_step = loop.max_steps[1]

\* C20: the global step never exceeds max_steps when max_steps is set, no
\* more than max_epochs epochs are run and none with an index of max_epochs
\* or more, no batch is trained once the step limit is reached, a run that
\* was neither interrupted nor stopped early ends with one of the two limits
\* reached, and every training that starts comes to its end.
C20_StopsAtFirstLimit ==
    /\ []C20_Limits
    /\ (loop.pc = "train") ~> (loop.pc = "done")

C20_Witness ==
    /\ loop.pc = "done"
    /\ loop.max_steps = <<3>>
    /\ loop.global_step = 3
    /\ loop.max_epochs = 2
    /\ tenv.train_len = 2
    /\ loop.train_batches = 3
    /\ Len(epoch_log) = 2
    /\ epoch_log[2].batches = 1


\* The Trainer's lists were computed from the return value conf.
NormalizedFrom(conf) == optim.conf = <<conf>>

\* C21: when configure_optimizers returns optimizers only, the normalized
\* optimizer list is the supplied one in the supplied order: one optimizer
\* gives a list of length 1 holding it, a tuple or a list (opt_a, opt_b) gives
\* [opt_a, opt_b]; in both cases the scheduler list and the frequency list
\* are empty.
C21_OptimizersOnly ==
    \A conf \in OptimConfs : NormalizedFrom(conf) =>
        /\ conf.kind = "optimizer" =>
              /\ Len(optim.optimizers) = 1
              /\ optim.optimizers[1] = conf.opts[1]
              /\ Len(optim.lr_schedulers) = 0
              /\ Len(optim.optimizer_frequencies) = 0
        /\ conf.kind \in {"tuple", "list"} =>
              /\ Len(optim.optimizers) = Len(conf.opts)
              /\ \A i \in DOMAIN conf.opts : optim.optimizers[i] = conf.opts[i]
              /\ Len(optim.lr_schedulers) = 0
              /\ Len(optim.optimizer_frequencies) = 0

C21_Witness ==
    /\ NormalizedFrom(OptimConf("tuple", <<"opt_a", "opt_b">>, <<>>, <<>>))
    /\ optim.optimizers = <<"opt_a", "opt_b">>

\* Every dict of the sequence gives an lr_scheduler and a frequency.
FullDicts(conf) ==
    /\ conf.kind = "dicts"
    /\ \A i \in DOMAIN conf.dicts :
          conf.dicts[i].lr_scheduler # <<>> /\ conf.dicts[i].frequency # <<>>

\* The return value gives no frequency.
NoFrequency(conf) ==
    \/ conf.kind \in {"optimizer", "tuple", "list", "two_lists"}
    \/ conf.kind = "dict" /\ conf.dicts[1].frequency = <<>>

\* C22: from a sequence of dicts that each give optimizer, lr_scheduler and
\* frequency, the optimizers, the schedulers and the frequencies each come
\* out in the supplied order (the frequencies are [f1, f2]); from every shape
\* that gives no frequency (one optimizer, a list or tuple, a tuple of two
\* lists, one dict without frequency) the frequency list is empty.
C22_SuppliedOrder ==
    \A conf \in OptimConfs : NormalizedFrom(conf) =>
        /\ FullDicts(conf) =>
              /\ Len(optim.optimizers) = Len(conf.dicts)
              /\ Len(optim.lr_schedulers) = Len(conf.dicts)
              /\ Len(optim.optimizer_frequencies) = Len(conf.dicts)
              /\ \A i \in DOMAIN conf.dicts :
                    /\ optim.optimizers[i] = conf.dicts[i].optimizer
                    /\ optim.lr_schedulers[i].scheduler = conf.dicts[i].lr_scheduler[1]
                    /\ optim.optimizer_frequencies[i] = conf.dicts[i].frequency[1]
        /\ NoFrequency(conf) => Len(optim.optimizer_frequencies) = 0

C22_Witness ==
    /\ \E conf \in OptimConfs :
          /\ NormalizedFrom(conf) /\ FullDicts(conf)
          /\ conf.dicts[1].optimizer = "opt_a" /\ Len(conf.dicts) = 2
    /\ optim.optimizer_frequencies = <<1, 5>>


\* The schedulers the return value supplies, in the order it supplies them.
SuppliedSchedulers(conf) ==
    CASE conf.kind = "two_lists" -> conf.scheds
      [] conf.kind \in {"dict", "dicts"} ->
            SelectSeq([i \in DOMAIN conf.dicts |->
                          IF conf.dicts[i].lr_scheduler = <<>>
                          THEN [optimizer |-> "None"]
                          ELSE conf.dicts[i].lr_scheduler[1]],
                      LAMBDA sch : sch \in Schedulers)
      [] OTHER -> <<>>

\* The optimizers the return value supplies, in the order it supplies them.
SuppliedOptimizers(conf) ==
    IF conf.kind \in {"dict", "dicts"}
    THEN [i \in DOMAIN conf.dicts |-> conf.dicts[i].optimizer]
    ELSE conf.opts

\* The return value supplies a scheduler for each of its optimizers, in the
\* order of the optimizers.
ScheduledThroughout(conf) ==
    /\ Len(SuppliedSchedulers(conf)) = Len(SuppliedOptimizers(conf))
    /\ \A i \in DOMAIN SuppliedSchedulers(conf) :
          SuppliedSchedulers(conf)[i].optimizer = SuppliedOptimizers(conf)[i]

\* Scheduler entry i belongs to optimizer i.
LinedUp ==
    \A i \in DOMAIN optim.lr_schedulers :
        /\ i \in DOMAIN optim.optimizers
        /\ optim.lr_schedulers[i].scheduler.optimizer = optim.optimizers[i]

FitReturned == loop.pc = "done" /\ loop.result = <<FitReturnValue>>

\* Each logger the script configured is a logger of the Trainer.
LoggersConfigured ==
    /\ Len(loop.logger) = Len(kwargs.logger)
    /\ \A i \in DOMAIN loop.logger : loop.logger[i].name = kwargs.logger[i]

\* C24 as stated: by the time a fit returns successfully, every configured
\* logger has received log_hyperparams with the model's hparams, at least one
\* log_metrics call, and finalize with status "success".
C24_LoggersServed ==
    FitReturned =>
        /\ LoggersConfigured
        /\ \A i \in DOMAIN loop.logger :
              /\ loop.logger[i].hparams_logged = <<"hparams">>
              /\ loop.logger[i].metrics_logged
              /\ loop.logger[i].finalized_status = <<"success">>

\* C24: by the time a fit returns, every configured logger (the single one,
\* or each member when several are passed) has received finalize with status
\* "success"; log_hyperparams with the model's hparams when the model has an
\* hparams attribute; and at least one log_metrics call when the fit ran at
\* least one training batch.
C24_LoggersServedWhenApplicable ==
    FitReturned =>
        /\ LoggersConfigured
        /\ \A i \in DOMAIN loop.logger :
              /\ loop.logger[i].finalized_status = <<"success">>
              /\ tenv.hparams => loop.logger[i].hparams_logged = <<"hparams">>
              /\ loop.train_batches > 0 => loop.logger[i].metrics_logged

C24_Witness ==
    /\ FitReturned
    /\ Len(loop.logger) = 2
    /\ tenv.hparams
    /\ loop.train_batches > 0
    /\ \A i \in DOMAIN loop.logger :
          /\ loop.logger[i].hparams_logged = <<"hparams">>
          /\ loop.logger[i].metrics_logged
          /\ loop.logger[i].finalized_status = <<"success">>


\* Process p enters fit: its first statements run.
EntersFit(p) == pc[p] = "idle" /\ pc'[p] = "check"

\* The loader arguments of fit, each with the factory of the model it patches.
LoaderSlots ==
    {<<"train_dataloader", "train_dataloader">>,
     <<"val_dataloaders", "val_dataloader">>,
     <<"test_dataloaders", "test_dataloader">>}

\* Where fit is about to validate the model's contract, each loader it was
\* passed is what the model's factory returns.
AttachedBeforeCheck ==
    \A p \in Procs : pc[p] = "check" =>
        /\ ~Has(calls[p], "check_model_configuration")
        /\ \A slot \in LoaderSlots :
              fit_args[p][slot[1]] # "None" => model[slot[2]] = fit_args[p][slot[1]]

\* Entering fit leaves alone every factory for which None was passed, and
\* everything of the model that is not a loader factory.
AttachFrame ==
    \A p \in Procs : EntersFit(p) =>
        /\ \A slot \in LoaderSlots :
              model'[slot[2]] = IF fit_args'[p][slot[1]] # "None"
                                THEN fit_args'[p][slot[1]] ELSE model[slot[2]]
        /\ \A name \in DOMAIN model \ {slot[2] : slot \in LoaderSlots} :
              model'[name] = model[name]

CallReturned(p) == role[p] = "caller" /\ pc[p] = "idle" /\ outcome[p] = "returned"

\* C26 as stated: the trainer refers to the model only while a run lasts;
\* after fit or test returns, trainer.model no longer refers to it.
C26_ModelReleased ==
    \A p \in Procs : CallReturned(p) => trainer[p].model = "None"

\* C26: the trainer takes its reference to the model when a run starts and
\* keeps it; after fit or test returns, trainer.model still refers to the
\* model of that run.
C26_ModelKept ==
    \A p \in Procs : CallReturned(p) => trainer[p].model = "m"

C26_Witness ==
    \E p \in Procs :
        /\ CallReturned(p) /\ api[p] = "test" /\ ncalls[p] = 2
        /\ ~Has(calls[p], "fit")
        /\ trainer[p].model = "m"


\* The constructor has run: to its end, or to a failed assertion.
Constructed == loop.pc \notin {"unborn", "failed"}

ConstructionFailed == loop.pc = "failed" /\ loop.error # ""

\* The precision the constructor arrives at: use_amp, when passed, decides
\* it; else the precision argument does.
EffectivePrecision(a) ==
    IF a.use_amp # <<>> THEN (IF a.use_amp[1] THEN 16 ELSE 32) ELSE a.precision

Aliases ==
    {<<"gradient_clip", "gradient_clip_val", FALSE>>,
     <<"nb_gpu_nodes", "num_nodes", FALSE>>,
     <<"max_nb_epochs", "max_epochs", TRUE>>,
     <<"min_nb_epochs", "min_epochs", FALSE>>,
     <<"nb_sanity_val_steps", "num_sanity_val_steps", TRUE>>}

\* C28: a Trainer constructed with a deprecated alias and the canonical
\* argument at its default has the alias value in the canonical field
\* (gradient_clip -> gradient_clip_val, nb_gpu_nodes -> num_nodes,
\* max_nb_epochs -> max_epochs, min_nb_epochs -> min_epochs,
\* nb_sanity_val_steps -> num_sanity_val_steps, the last with fast_dev_run
\* off), and reading the deprecated attribute returns the canonical field's
\* current value.
C28_AliasMapped ==
    Constructed =>
        \A x \in Aliases :
            /\ deprecated_attribute(loop, x[1]) = loop[x[2]]
            /\ (/\ kwargs[x[1]] # <<>>
                /\ kwargs[x[2]] = DefaultArgs[x[2]]
                /\ ~(x[3] /\ kwargs.fast_dev_run)) => loop[x[2]] = kwargs[x[1]][1]

C28_Witness ==
    /\ Constructed
    /\ kwargs.gradient_clip = <<50>> /\ kwargs.gradient_clip_val = 0
    /\ loop.gradient_clip_val = 50
    /\ kwargs.nb_gpu_nodes = <<2>> /\ loop.num_nodes = 2
    /\ kwargs.min_nb_epochs = <<2>> /\ loop.min_epochs = 2
    /\ kwargs.nb_sanity_val_steps = <<0>> /\ loop.num_sanity_val_steps = 0

\* The warnings issued so far that name the attribute or argument name.
WarningsNaming(name) ==
    Len(SelectSeq(loop.warnings, LAMBDA w : w.name = name))

\* C29: constructing a Trainer with gradient_clip=0.5 and gradient_clip_val
\* unset issues exactly one warning for that alias.
C29_WarnedOnce ==
    (Constructed /\ kwargs.gradient_clip = <<50>> /\ kwargs.gradient_clip_val = 0) =>
        WarningsNaming("gradient_clip") = 1

\* The deprecated alias and canonical argument are both supplied, with
\* different values.
Conflict(alias, canonical) ==
    /\ kwargs[alias] # <<>>
    /\ kwargs[canonical] # DefaultArgs[canonical]
    /\ kwargs[alias][1] # kwargs[canonical]

\* C30: when a deprecated alias and its canonical argument are both supplied
\* with different values, the canonical field holds the canonical argument's
\* value after construction.
C30_CanonicalPreferred ==
    Constructed =>
        /\ \A x \in Aliases :
              (Conflict(x[1], x[2]) /\ ~(x[3] /\ kwargs.fast_dev_run)) =>
                  loop[x[2]] = kwargs[x[2]]
        /\ Conflict("add_row_log_interval", "row_log_interval") =>
              loop.row_log_interval = kwargs.row_log_interval
        /\ (kwargs.use_amp # <<>> /\ kwargs.precision # EffectivePrecision(kwargs)) =>
              loop.precision = kwargs.precision


\* C31: a Trainer constructed with one of the deprecated aliases
\* add_row_log_interval, use_amp, show_progress_bar has the value in the
\* canonical field: add_row_log_interval=v with row_log_interval not passed
\* gives row_log_interval = v, use_amp=True gives precision 16 and
\* use_amp=False precision 32, show_progress_bar=False gives
\* progress_bar_refresh_rate = 0 and show_progress_bar reads False.
C31_LateAliasesMapped ==
    Constructed =>
        /\ (/\ kwargs.add_row_log_interval # <<>>
            /\ kwargs.row_log_interval = DefaultArgs.row_log_interval) =>
               loop.row_log_interval = kwargs.add_row_log_interval[1]
        /\ kwargs.use_amp = <<TRUE>> => loop.precision = 16
        /\ kwargs.use_amp = <<FALSE>> => loop.precision = 32
        /\ kwargs.show_progress_bar = <<FALSE>> =>
               /\ ~show_progress_bar(loop)
               /\ loop.progress_bar_refresh_rate = 0



\* C39: the amp request the constructor hands to init_amp is true exactly
\* when the precision it arrived at is 16 and num_tpu_cores is None; on TPU
\* it is never true.
C39_AmpRequest ==
    Constructed =>
        /\ loop.amp_request = <<TRUE>> <=>
               (loop.precision = 16 /\ loop.num_tpu_cores = 0)
        /\ loop.num_tpu_cores # 0 => loop.amp_request # <<TRUE>>


\* The strategies in their priority order, and the first whose condition the
\* configuration satisfies (CPU when none does).
StrategyOrder == <<"ddp2", "ddp", "dp", "single_gpu", "tpu">>

Selected(cfg) ==
    LET on == <<cfg.use_ddp2, cfg.use_ddp, cfg.use_dp, cfg.single_gpu,
                cfg.num_tpu_cores # 0>>
        hits == {i \in DOMAIN StrategyOrder : on[i]}
    IN  IF hits = {} THEN "cpu"
        ELSE StrategyOrder[CHOOSE i \in hits : \A j \in hits : i <= j]

\* What entering a strategy leaves in the log of the fit call.
LauncherCalls == {"ddp_train", "spawn", "dp_train", "single_gpu_train"}

LauncherOf(s) ==
    CASE s \in {"ddp2", "ddp"} -> {"ddp_train", "spawn"}
      [] s = "tpu" -> {"spawn"}
      [] s = "dp" -> {"dp_train"}
      [] s = "single_gpu" -> {"single_gpu_train"}
      [] s = "cpu" -> {}

\* fit itself, not a launcher, initialised the optimizers and entered the
\* pretrain routine: the two calls follow prepare_data directly.
DirectlyInFit(log) ==
    \E i \in 1..(Len(log) - 2) :
        /\ log[i] = "prepare_data"
        /\ log[i + 1] = "init_optimizers"
        /\ log[i + 2] = "run_pretrain_routine"

\* The fit call of p has gone through the dispatch.
Dispatched(p) ==
    /\ Has(calls[p], "prepare_data")
    /\ pc[p] # "route"

\* C32: a fit call that reaches the dispatch enters exactly one strategy, the
\* first in the order ddp2, ddp, dp, single GPU, TPU whose condition holds,
\* else CPU; it starts at most one launcher, that of its strategy, and only
\* the CPU branch initialises the optimizers and runs the pretrain routine
\* in fit itself.
C32_OneStrategy ==
    \A p \in Procs :
        role[p] = "caller" =>
            /\ strategy[p] # "none" <=> Dispatched(p)
            /\ Dispatched(p) =>
                  /\ strategy[p] = Selected(config)
                  /\ Len(SelectSeq(calls[p], LAMBDA e : e \in LauncherCalls)) <= 1
                  /\ \A e \in LauncherCalls :
                        Has(calls[p], e) => e \in LauncherOf(strategy[p])
                  /\ DirectlyInFit(calls[p]) => strategy[p] = "cpu"
                  /\ (strategy[p] = "cpu" /\ outcome[p] # "MisconfigurationException")
                        => DirectlyInFit(calls[p])

C32_Witness ==
    /\ config.use_ddp2 /\ config.use_ddp /\ config.use_dp /\ config.single_gpu
    /\ config.num_tpu_cores # 0
    /\ strategy[0] = "ddp2"
    /\ Has(calls[0], "ddp_train")
    /\ pc[0] = "idle" /\ outcome[0] = "returned"


\* The processes whose current call has executed model.prepare_data().
Prepared == {p \in Procs : Has(calls[p], "prepare_data")}

\* C33: model.prepare_data runs in process 0 only, once per run, after the
\* model contract was validated and before any launcher; no process of
\* non-zero rank executes it, SLURM-started tasks and ddp2 included.
C33_PrepareOnProcessZero ==
    /\ Prepared \subseteq {0}
    /\ \A p \in Prepared :
          /\ trainer[p].proc_rank = 0
          /\ SlurmLocalId(p) \in {<<>>, <<0>>}
          /\ Len(SelectSeq(calls[p], LAMBDA e : e = "prepare_data")) = 1
          /\ Pos(calls[p], "check_model_configuration") < Pos(calls[p], "prepare_data")
          /\ \A i \in DOMAIN calls[p] :
                calls[p][i] \in LauncherCalls \cup {"init_optimizers"} =>
                    i > Pos(calls[p], "prepare_data")


\* The progress counters of a trainer object.
Counters(t) == <<t.global_step, t.current_epoch, t.batch_idx>>

\* Process p calls fit on a trainer whose fit spawns its workers.
SpawningCaller(p) ==
    /\ role[p] = "caller"
    /\ Route(config) \in {"ddp", "tpu"}
    /\ ~(Route(config) = "ddp" /\ config.is_slurm_managing_tasks)

\* C34: when fit spawns its workers (ddp without SLURM, TPU), the workers
\* train on their own copies of the trainer: the calling process's
\* global_step, current_epoch and batch_idx (and its optimizers) are what they
\* were before fit, whatever the workers did, and the spawned weights are
\* loaded only once every worker has finished.
C34_NoSharedTrainerState ==
    \A p \in Procs :
        SpawningCaller(p) =>
            /\ Counters(trainer[p]) = Counters(NewTrainer)
            /\ trainer[p].optimizers = NewTrainer.optimizers
            /\ Has(calls[p], "load_spawn_weights") =>
                  /\ Has(calls[p], "spawn")
                  /\ \A w \in Workers : pc[w] = "exited" /\ outcome[w] = "returned"

C34_Witness ==
    /\ SpawningCaller(0)
    /\ api[0] = "fit" /\ pc[0] = "idle" /\ outcome[0] = "returned"
    /\ Has(calls[0], "load_spawn_weights")
    /\ Workers # {}
    /\ \A w \in Workers : Counters(trainer[w]) = <<4, 1, 1>>
    /\ Counters(trainer[0]) = <<0, 0, 0>>


\* What a call logs when it initialises optimizers, trains or evaluates.
WorkCalls ==
    {"init_optimizers", "run_pretrain_routine", "sanity_check", "train",
     "run_evaluation(test_mode)"}

\* C35: a fit that reaches the CPU branch with amp enabled raises a
\* MisconfigurationException there: no optimizers were initialised (the
\* trainer's optimizers are those it had before the call), the pretrain
\* routine was not entered, and nothing was trained or evaluated.
C35_AmpOnCpu ==
    \A p \in Procs :
        (/\ role[p] = "caller" /\ Dispatched(p)
         /\ strategy[p] = "cpu" /\ config.use_amp) =>
            /\ pc[p] = "idle"
            /\ outcome[p] = "MisconfigurationException"
            /\ error[p] = "amp + cpu is not supported"
            /\ fit_result[p] = <<>>
            /\ \A e \in WorkCalls : ~Has(calls[p], e)
            /\ trainer[p].optimizers = NewTrainer.optimizers
            /\ Counters(trainer[p]) = Counters(NewTrainer)
            /\ sanity_batches[p] = 0

C35_Witness ==
    /\ config.use_amp /\ strategy[0] = "cpu"
    /\ api[0] = "fit" /\ pc[0] = "idle"
    /\ outcome[0] = "MisconfigurationException"
    /\ Has(calls[0], "prepare_data")


\* C36: the testing flag is True only while a test() call is in progress:
\* once a test call has ended, by returning or by raising, the flag is False,
\* and a fit call never runs the test evaluation in place of the training.
C36_TestingOnlyDuringTest ==
    \A p \in Procs :
        role[p] = "caller" =>
            /\ trainer[p].testing => (api[p] = "test" /\ pc[p] # "idle")
            /\ api[p] = "fit" => ~Has(calls[p], "run_evaluation(test_mode)")



\* The model's factory name is a _PatchDataLoader that a fit put there.
Patched(m, name) == m[name] \notin {"base", "own"}

\* C38: a loader that fit attached to the model stays attached: no step of
\* the trainer, the return of fit and later fit and test calls without that
\* loader argument included, removes or changes the patched factory; only a
\* fit that is passed a loader for the same slot replaces it, by that loader.
C38_OverrideOutlivesRun ==
    [][\A slot \in LoaderSlots :
          Patched(model, slot[2]) =>
              \/ model'[slot[2]] = model[slot[2]]
              \/ \E p \in Procs :
                    /\ EntersFit(p)
                    /\ fit_args'[p][slot[1]] # "None"
                    /\ model'[slot[2]] = fit_args'[p][slot[1]]]_vars

C38_Witness ==
    /\ ncalls[0] = 2
    /\ api[0] \in {"fit", "test"}
    /\ pc[0] = "check"
    /\ fit_args[0] = NoLoaders
    /\ Patched(model, "val_dataloader")
    /\ model.val_dataloader = PatchDataLoader("val")
    /\ ~Patched(model, "test_dataloader")


\* Trainer t was constructed without a callbacks argument.
DefaultCallbacks(t) ==
    /\ trainers[t].pc # "unborn"
    /\ trainers[t].callbacks = <<DefaultList>>

\* C37: of two Trainers constructed without a callbacks argument, each one's
\* dispatchers invoke only the callbacks that were added to that trainer's
\* own callbacks list, in the order they were added: adding a callback to
\* one never shows in what the other invokes.
C37_IndependentRegistries ==
    \A t \in TrainerIds :
        DefaultCallbacks(t) =>
            /\ Registered(t) = trainers[t].added
            /\ \A i \in DOMAIN hook_log :
                  hook_log[i].trainer = t =>
                      \A j \in DOMAIN hook_log[i].invoked :
                          \E k \in DOMAIN trainers[t].added :
                              trainers[t].added[k] = hook_log[i].invoked[j].callback

=============================================================================
